---------------------------- MODULE Spec2Model ----------------------------
(***************************************************************************)
(* Model of the chief-of-staff dashboard backend: the calendar audit       *)
(* (OKR matcher, alignment scorer, audit pipeline, daily briefing) of      *)
(* backend/services/calendar_audit.py and backend/main.py, and the copies  *)
(* of the same logic in api/calendar-audit.py and api/daily-briefing.py;   *)
(* the available dates (backend/main.py, api/available-dates.py); the      *)
(* style checker of backend/services/style_checker.py and its copy in      *)
(* api/check-style.py; the feedback file of backend/main.py.               *)
(*                                                                         *)
(* Text is modelled by TLA+ strings with real substring search; Python's   *)
(* float arithmetic is modelled by a binary64 soft-float on limb sequences *)
(* (53-bit significand, round-half-even), non-negative values only.        *)
(***************************************************************************)
EXTENDS Integers, Sequences, FiniteSets, TLC

(***************************************************************************)
(* Strings: str.lower(), the `in` operator, " ".join(...), comparison      *)
(***************************************************************************)

UpperChars == "ABCDEFGHIJKLMNOPQRSTUVWXYZ"

LowerChars == "abcdefghijklmnopqrstuvwxyz"

\* upper-case letter |-> lower-case letter
LowerMap ==
  [c \in {SubSeq(UpperChars, i, i) : i \in 1..26} |->
     LET i == CHOOSE j \in 1..26 : SubSeq(UpperChars, j, j) = c
     IN  SubSeq(LowerChars, i, i)]

\* str.lower() on one character (ASCII letters; every other character is kept)
LowerChar(c) == IF c \in DOMAIN LowerMap THEN LowerMap[c] ELSE c

RECURSIVE Lower(_)
\* str.lower()
Lower(s) ==
  IF Len(s) = 0 THEN ""
  ELSE IF Len(s) = 1 THEN LowerChar(s)
  ELSE Lower(SubSeq(s, 1, Len(s) \div 2)) \o Lower(SubSeq(s, Len(s) \div 2 + 1, Len(s)))

\* Python `kw in s` for strings: plain substring containment
Contains(s, kw) ==
  \E i \in 1..(Len(s) - Len(kw) + 1) : SubSeq(s, i, i + Len(kw) - 1) = kw

\* any(kw in s for kw in kws), kws a sequence of strings
AnyIn(kws, s) == \E k \in 1..Len(kws) : Contains(s, kws[k])

RECURSIVE Join(_)
\* " ".join(parts)
Join(parts) ==
  IF Len(parts) = 0 THEN ""
  ELSE IF Len(parts) = 1 THEN parts[1]
  ELSE parts[1] \o " " \o Join(Tail(parts))

\* the characters of dates and times in ASCII order ('-' < digits < ':')
OrdChars == "-0123456789:"

CharOrd(c) ==
  IF \E i \in 1..Len(OrdChars) : SubSeq(OrdChars, i, i) = c
    THEN CHOOSE i \in 1..Len(OrdChars) : SubSeq(OrdChars, i, i) = c
    ELSE 0

RECURSIVE StrLess(_, _)
\* Python `a < b` for strings: lexicographic by code point
StrLess(a, b) ==
  IF Len(b) = 0 THEN FALSE
  ELSE IF Len(a) = 0 THEN TRUE
  ELSE LET ca == CharOrd(SubSeq(a, 1, 1))
           cb == CharOrd(SubSeq(b, 1, 1))
       IN  IF ca # cb THEN ca < cb
           ELSE StrLess(SubSeq(a, 2, Len(a)), SubSeq(b, 2, Len(b)))

(***************************************************************************)
(* Python float (IEEE-754 binary64) for the non-negative values of the     *)
(* scorer and the summaries.  A natural number is a sequence of limbs of   *)
(* LimbBits bits, least significant first, without top zero limbs; a float *)
(* is [m |-> limbs, e |-> exponent] with value m * 2^e, m below 2^53.      *)
(***************************************************************************)

MantBits == 53

LimbBits == 15

Limb == 2 ^ LimbBits

RECURSIVE BigOf(_)
\* the limbs of a natural number
BigOf(n) == IF n = 0 THEN <<>> ELSE <<n % Limb>> \o BigOf(n \div Limb)

RECURSIVE BigToInt(_)
BigToInt(b) == IF b = <<>> THEN 0 ELSE Head(b) + Limb * BigToInt(Tail(b))

RECURSIVE BigNorm(_)
\* strip top zero limbs
BigNorm(b) ==
  IF b = <<>> THEN <<>>
  ELSE IF b[Len(b)] = 0 THEN BigNorm(SubSeq(b, 1, Len(b) - 1))
  ELSE b

RECURSIVE BigAddC(_, _, _)
BigAddC(a, b, c) ==
  IF a = <<>> /\ b = <<>> THEN (IF c = 0 THEN <<>> ELSE <<c>>)
  ELSE LET x == IF a = <<>> THEN 0 ELSE Head(a)
           y == IF b = <<>> THEN 0 ELSE Head(b)
           s == x + y + c
       IN  <<s % Limb>> \o BigAddC(IF a = <<>> THEN <<>> ELSE Tail(a),
                                   IF b = <<>> THEN <<>> ELSE Tail(b),
                                   s \div Limb)

BigAdd(a, b) == BigAddC(a, b, 0)

RECURSIVE BigMulSmallC(_, _, _)
BigMulSmallC(a, k, c) ==
  IF a = <<>> THEN BigOf(c)
  ELSE LET p == Head(a) * k + c
       IN  <<p % Limb>> \o BigMulSmallC(Tail(a), k, p \div Limb)

\* a * k for 0 <= k < Limb
BigMulSmall(a, k) == IF k = 0 THEN <<>> ELSE BigMulSmallC(a, k, 0)

\* a * 2^k
BigShl(a, k) ==
  IF a = <<>> THEN <<>>
  ELSE [i \in 1..(k \div LimbBits) |-> 0] \o BigMulSmall(a, 2 ^ (k % LimbBits))

RECURSIVE BigMul(_, _)
\* a * b, limb by limb over b
BigMul(a, b) ==
  IF a = <<>> \/ b = <<>> THEN <<>>
  ELSE BigAdd(BigMulSmall(a, Head(b)), BigShl(BigMul(a, Tail(b)), LimbBits))

RECURSIVE IntBitLen(_)
IntBitLen(n) == IF n = 0 THEN 0 ELSE 1 + IntBitLen(n \div 2)

\* the number of significant bits
BigBitLen(a) ==
  IF a = <<>> THEN 0 ELSE LimbBits * (Len(a) - 1) + IntBitLen(a[Len(a)])

\* bit number pos (0 is the least significant)
BigBit(a, pos) ==
  LET i == pos \div LimbBits + 1
  IN  IF i > Len(a) THEN 0 ELSE (a[i] \div 2 ^ (pos % LimbBits)) % 2

\* whether one of the bits 0..n-1 is set
BigLowSet(a, n) ==
  \/ \E i \in 1..(n \div LimbBits) : i <= Len(a) /\ a[i] # 0
  \/ LET i == n \div LimbBits + 1
     IN  i <= Len(a) /\ a[i] % 2 ^ (n % LimbBits) # 0

\* floor(a / 2^d)
BigShr(a, d) ==
  LET q == d \div LimbBits
      s == d % LimbBits
      n == Len(a) - q
      L(i) == IF i <= Len(a) THEN a[i] ELSE 0
  IN  IF n <= 0 THEN <<>>
      ELSE BigNorm([i \in 1..n |->
                      L(i + q) \div 2 ^ s + (L(i + q + 1) % 2 ^ s) * 2 ^ (LimbBits - s)])

\* round-to-nearest, ties-to-even, of m * 2^e to a 53-bit significand
FRound(m, e) ==
  LET n == BigBitLen(m) IN
  IF n <= MantBits THEN [m |-> m, e |-> e]
  ELSE LET drop   == n - MantBits
           keep   == BigShr(m, drop)
           guard  == BigBit(m, drop - 1)
           sticky == BigLowSet(m, drop - 1)
           up     == guard = 1 /\ (sticky \/ BigBit(keep, 0) = 1)
           r      == IF up THEN BigAdd(keep, <<1>>) ELSE keep
       IN  IF BigBitLen(r) > MantBits
             THEN [m |-> BigShr(r, 1), e |-> e + drop + 1]
             ELSE [m |-> r, e |-> e + drop]

\* float(n) for a natural number below 2^31 (exact)
FOfInt(n) == [m |-> BigOf(n), e |-> 0]

FracLimbs == 6

RECURSIVE DivLimbs(_, _, _)
\* long division in base Limb: the first k limbs of r/t after the point
\* (most significant first) and the remainder; 0 <= r < t < 2^16
DivLimbs(r, t, k) ==
  IF k = 0 THEN [q |-> <<>>, rem |-> r]
  ELSE LET d    == (r * Limb) \div t
           rest == DivLimbs((r * Limb) % t, t, k - 1)
       IN  [q |-> rest.q \o <<d>>, rem |-> rest.rem]

\* a / b for natural numbers a, b (0 < b < 2^16), correctly rounded:
\* int / int in Python
FDivInt(a, b) ==
  IF a = 0 THEN [m |-> <<>>, e |-> 0]
  ELSE LET d    == DivLimbs(a % b, b, FracLimbs)
           quot == BigNorm(d.q \o BigOf(a \div b))
           \* one more bit below carries the rest of the quotient (sticky)
           ext  == BigAdd(BigMulSmall(quot, 2), IF d.rem # 0 THEN <<1>> ELSE <<>>)
       IN  FRound(ext, -(FracLimbs * LimbBits + 1))

\* x * y
FMul(x, y) == FRound(BigMul(x.m, y.m), x.e + y.e)

\* x + y
FAdd(x, y) ==
  IF x.m = <<>> THEN y
  ELSE IF y.m = <<>> THEN x
  ELSE LET e == IF x.e < y.e THEN x.e ELSE y.e
       IN  FRound(BigAdd(BigShl(x.m, x.e - e), BigShl(y.m, y.e - e)), e)

\* int(x): truncation of a non-negative float (result below 2^31)
FTrunc(x) ==
  IF x.m = <<>> THEN 0
  ELSE IF x.e >= 0 THEN BigToInt(BigShl(x.m, x.e))
  ELSE BigToInt(BigShr(x.m, -x.e))

(***************************************************************************)
(* Constant tables of the calendar audit                                   *)
(***************************************************************************)

OKR_KEYWORDS ==
  [ platform_modernization |->
      << "kubernetes", "k8s", "migration", "deployment", "uptime",
         "infrastructure", "platform", "devops", "ci/cd", "architecture" >>,
    engineering_team |->
      << "hire", "hiring", "interview", "staff engineer", "principal",
         "attrition", "mentorship", "mentor", "career", "growth", "1:1" >>,
    ai_ml_integration |->
      << "ai", "ml", "machine learning", "artificial intelligence",
         "data science", "model", "poc", "search" >> ]

MEETING_TYPE_SCORES ==
  [ architecture |-> 95, strategic_planning |-> 90, board_prep |-> 90,
    one_on_one |-> 85, hiring |-> 80, interview |-> 75,
    incident_review |-> 85, external |-> 70, design_review |-> 60,
    sprint_ceremony |-> 30, standup |-> 25, status_update |-> 20,
    vendor_demo |-> 40, adhoc |-> 35, prep |-> 50, strategic |-> 80 ]

JUNIOR_INDICATORS == << "junior", "intern", "new hire", "onboarding", "coffee chat" >>

\* the senior indicators without "board"
SENIOR_INDICATORS_noBoard ==
  << "staff", "principal", "director", "vp", "cto", "ceo", "cfo", "investor" >>

SENIOR_INDICATORS ==
  << "staff", "principal", "director", "vp", "cto", "ceo", "cfo", "board", "investor" >>

\* the flag texts
FlagNoOkr == "No clear OKR alignment detected"

FlagJunior(title) == "CTO attending junior-level activity: '" \o title \o "'"

FlagDesignReview == "Design review should be delegated to Engineering Manager"

FlagInterview == "Interview for junior role - delegate to hiring manager"

FlagVendor == "Vendor demo for tool under $50K threshold - delegate"

FlagStatus == "Status updates should be asynchronous - consider declining"

FlagSprint == "Sprint ceremony - CTO attendance rarely necessary"

(***************************************************************************)
(* OKR matcher and alignment scorer (backend/services/calendar_audit.py)   *)
(***************************************************************************)

\* the search text without the meeting type
OkrSearchText_noType(meeting) ==
  Lower(meeting.title \o " " \o meeting.description)

\* the text the OKR matcher searches
OkrSearchText(meeting) ==
  Lower(meeting.title \o " " \o meeting.description \o " " \o meeting.meeting_type)

\* the matcher with the AI/ML group checked first
find_okr_relevance_aiFirst(meeting) ==
  LET text_to_search == Lower(meeting.title \o " " \o meeting.description
                              \o " " \o meeting.meeting_type)
  IN  (IF AnyIn(OKR_KEYWORDS.ai_ml_integration, text_to_search)
         THEN << "AI/ML Integration" >> ELSE << >>)
      \o (IF AnyIn(OKR_KEYWORDS.platform_modernization, text_to_search)
            THEN << "Platform Modernization" >> ELSE << >>)
      \o (IF AnyIn(OKR_KEYWORDS.engineering_team, text_to_search)
            THEN << "Build World-Class Engineering Team" >> ELSE << >>)

find_okr_relevance(meeting) ==
  LET text_to_search == OkrSearchText(meeting)
  IN  (IF AnyIn(OKR_KEYWORDS.platform_modernization, text_to_search)
         THEN << "Platform Modernization" >> ELSE << >>)
      \o (IF AnyIn(OKR_KEYWORDS.engineering_team, text_to_search)
            THEN << "Build World-Class Engineering Team" >> ELSE << >>)
      \o (IF AnyIn(OKR_KEYWORDS.ai_ml_integration, text_to_search)
            THEN << "AI/ML Integration" >> ELSE << >>)

\* the type score with 50 for a type that is not in the table
BaseTypeScore_default50(meeting_type) ==
  IF meeting_type \in DOMAIN MEETING_TYPE_SCORES
    THEN MEETING_TYPE_SCORES[meeting_type] ELSE 50

\* MEETING_TYPE_SCORES.get(meeting_type, 40)
BaseTypeScore(meeting_type) ==
  IF meeting_type \in DOMAIN MEETING_TYPE_SCORES
    THEN MEETING_TYPE_SCORES[meeting_type] ELSE 40

Min(a, b) == IF a < b THEN a ELSE b

\* the OKR score starting at 85 for the first matched group
OkrScore_from85(okr_relevance) ==
  IF Len(okr_relevance) > 0 THEN Min(100, 85 + Len(okr_relevance) * 15) ELSE 30

\* the OKR score without the cap at 100
OkrScore_noCap(okr_relevance) ==
  IF Len(okr_relevance) > 0 THEN 70 + Len(okr_relevance) * 15 ELSE 30

\* Factor 2: OKR alignment
OkrScore(okr_relevance) ==
  IF Len(okr_relevance) > 0 THEN Min(100, 70 + Len(okr_relevance) * 15) ELSE 30

\* the attendee score that tests the junior indicators first
AttendeeScore_juniorFirst(is_junior_activity, is_senior_activity) ==
  IF is_junior_activity THEN 25
  ELSE IF is_senior_activity THEN 90
  ELSE 60

\* Factor 3: attendee / seniority appropriateness
AttendeeScore(is_junior_activity, is_senior_activity) ==
  IF is_junior_activity /\ ~is_senior_activity THEN 25
  ELSE IF is_senior_activity THEN 90
  ELSE 60

\* Factor 4: time allocation category
TimeScore(meeting_type) ==
  IF meeting_type \in {"architecture", "strategic_planning", "board_prep", "hiring"}
    THEN 100
  ELSE IF meeting_type \in {"one_on_one", "interview", "mentorship"} THEN 75
  ELSE IF meeting_type \in {"standup", "status_update", "prep", "adhoc"} THEN 30
  ELSE 50

\* the float literals 0.30, 0.35, 0.20, 0.15
W_TYPE == FDivInt(30, 100)

W_OKR == FDivInt(35, 100)

W_ATTENDEE == FDivInt(20, 100)

W_TIME == FDivInt(15, 100)

\* the weighted sum with every term truncated on its own
WeightedScore_truncEach(type_score, okr_score, attendee_score, time_score) ==
  FTrunc(FMul(FOfInt(type_score), W_TYPE)) + FTrunc(FMul(FOfInt(okr_score), W_OKR))
  + FTrunc(FMul(FOfInt(attendee_score), W_ATTENDEE))
  + FTrunc(FMul(FOfInt(time_score), W_TIME))

\* int(type_score * 0.30 + okr_score * 0.35 + attendee_score * 0.20 + time_score * 0.15)
WeightedScore(type_score, okr_score, attendee_score, time_score) ==
  FTrunc(FAdd(FAdd(FAdd(FMul(FOfInt(type_score), W_TYPE),
                        FMul(FOfInt(okr_score), W_OKR)),
                   FMul(FOfInt(attendee_score), W_ATTENDEE)),
              FMul(FOfInt(time_score), W_TIME)))

\* the recommendation with strict thresholds
Recommendation_strict(final_score) ==
  IF final_score > 70 THEN "Keep"
  ELSE IF final_score > 45 THEN "Delegate"
  ELSE "Decline"

Recommendation(final_score) ==
  IF final_score >= 70 THEN "Keep"
  ELSE IF final_score >= 45 THEN "Delegate"
  ELSE "Decline"

\* the label with High from the Medium threshold on
get_strategic_value_label_highFrom50(score) ==
  IF score >= 50 THEN "High" ELSE "Low"

get_strategic_value_label(score) ==
  IF score >= 75 THEN "High"
  ELSE IF score >= 50 THEN "Medium"
  ELSE "Low"

\* the design-review case applied to interviews as well
DesignReviewOverride_anyReview(meeting_type, is_junior_activity, type_score) ==
  IF meeting_type \in { "design_review", "interview" } /\ is_junior_activity
    THEN [type_score |-> 20, flags |-> << FlagDesignReview >>]
    ELSE [type_score |-> type_score, flags |-> << >>]

\* Special case: junior design reviews
DesignReviewOverride(meeting_type, is_junior_activity, type_score) ==
  IF meeting_type = "design_review" /\ is_junior_activity
    THEN [type_score |-> 20, flags |-> << FlagDesignReview >>]
    ELSE [type_score |-> type_score, flags |-> << >>]

\* Special case: junior interviews
InterviewOverride(meeting_type, is_junior_activity, type_score) ==
  IF meeting_type = "interview" /\ is_junior_activity
    THEN [type_score |-> 25, flags |-> << FlagInterview >>]
    ELSE [type_score |-> type_score, flags |-> << >>]

\* the status-update case that only adds the flag
StatusOverride_flagOnly(meeting_type, type_score) ==
  IF meeting_type = "status_update"
    THEN [type_score |-> type_score, flags |-> << FlagStatus >>]
    ELSE [type_score |-> type_score, flags |-> << >>]

\* Special case: status updates should be async
StatusOverride(meeting_type, type_score) ==
  IF meeting_type = "status_update"
    THEN [type_score |-> 15, flags |-> << FlagStatus >>]
    ELSE [type_score |-> type_score, flags |-> << >>]

\* Special case: sprint ceremonies (the type score stays)
SprintOverride(meeting_type, type_score) ==
  IF meeting_type = "sprint_ceremony"
    THEN [type_score |-> type_score, flags |-> << FlagSprint >>]
    ELSE [type_score |-> type_score, flags |-> << >>]

\* Special case: small vendor demos (the type score and the flags it adds)
VendorOverride(meeting_type, text_lower, type_score) ==
  IF meeting_type = "vendor_demo"
    THEN IF Contains(text_lower, "25k") \/ Contains(text_lower, "10k")
           THEN [type_score |-> 20, flags |-> << FlagVendor >>]
         ELSE IF Contains(text_lower, "200k") \/ Contains(text_lower, "100k")
           THEN [type_score |-> 70, flags |-> << >>]
         ELSE [type_score |-> type_score, flags |-> << >>]
    ELSE [type_score |-> type_score, flags |-> << >>]

\* the end of calculate_alignment_score: the recommendation of the final score,
\* and the local variables when the function returns
ScorerReturn(locals, final_score) ==
  [ base_type_score |-> locals.base_type_score,
    type_score |-> locals.type_score, okr_score |-> locals.okr_score,
    attendee_score |-> locals.attendee_score, time_score |-> locals.time_score,
    is_junior_activity |-> locals.is_junior_activity,
    is_senior_activity |-> locals.is_senior_activity,
    okr_relevance |-> locals.okr_relevance,
    final_score |-> final_score, flags |-> locals.flags,
    recommendation |-> Recommendation(final_score) ]

\* calculate_alignment_score: the function's local variables when it returns
\* (it returns final_score, flags, recommendation)
calculate_alignment_score(meeting) ==
  LET text_lower      == Lower(meeting.title \o " " \o meeting.description)
      attendees_lower == Lower(Join(meeting.attendees))
      base_type_score == BaseTypeScore(meeting.meeting_type)
      okr_relevance   == find_okr_relevance(meeting)
      okr_score       == OkrScore(okr_relevance)
      flags_okr       == IF Len(okr_relevance) > 0 THEN << >> ELSE << FlagNoOkr >>
      is_junior_activity == AnyIn(JUNIOR_INDICATORS, text_lower)
      is_senior_activity ==
        \E k \in 1..Len(SENIOR_INDICATORS) :
          \/ Contains(text_lower, SENIOR_INDICATORS[k])
          \/ Contains(attendees_lower, SENIOR_INDICATORS[k])
      attendee_score  == AttendeeScore(is_junior_activity, is_senior_activity)
      flags_junior    == IF is_junior_activity /\ ~is_senior_activity
                           THEN << FlagJunior(meeting.title) >> ELSE << >>
      design  == DesignReviewOverride(meeting.meeting_type, is_junior_activity,
                                      base_type_score)
      intv    == InterviewOverride(meeting.meeting_type, is_junior_activity,
                                   design.type_score)
      vendor  == VendorOverride(meeting.meeting_type, text_lower, intv.type_score)
      status  == StatusOverride(meeting.meeting_type, vendor.type_score)
      sprint  == SprintOverride(meeting.meeting_type, status.type_score)
      flags   == flags_okr \o flags_junior \o design.flags \o intv.flags
                 \o vendor.flags \o status.flags \o sprint.flags
      type4   == sprint.type_score
      time_score  == TimeScore(meeting.meeting_type)
  IN  ScorerReturn([ base_type_score |-> base_type_score,
                     type_score |-> type4, okr_score |-> okr_score,
                     attendee_score |-> attendee_score, time_score |-> time_score,
                     is_junior_activity |-> is_junior_activity,
                     is_senior_activity |-> is_senior_activity,
                     okr_relevance |-> okr_relevance, flags |-> flags ],
                   WeightedScore(type4, okr_score, attendee_score, time_score))

(***************************************************************************)
(* The copy of the matcher and the scorer in api/calendar-audit.py         *)
(***************************************************************************)

audit_find_okr_relevance(meeting) ==
  LET text_to_search == OkrSearchText(meeting)
  IN  (IF AnyIn(OKR_KEYWORDS.platform_modernization, text_to_search)
         THEN << "Platform Modernization" >> ELSE << >>)
      \o (IF AnyIn(OKR_KEYWORDS.engineering_team, text_to_search)
            THEN << "Build World-Class Engineering Team" >> ELSE << >>)
      \o (IF AnyIn(OKR_KEYWORDS.ai_ml_integration, text_to_search)
            THEN << "AI/ML Integration" >> ELSE << >>)

\* calculate_alignment_score of api/calendar-audit.py: the local variables when it
\* returns (it returns final_score, flags, recommendation, okr_relevance)
audit_calculate_alignment_score(meeting) ==
  LET text_lower      == Lower(meeting.title \o " " \o meeting.description)
      attendees_lower == Lower(Join(meeting.attendees))
      base_type_score == BaseTypeScore(meeting.meeting_type)
      okr_relevance   == audit_find_okr_relevance(meeting)
      okr_score       == OkrScore(okr_relevance)
      flags_okr       == IF Len(okr_relevance) > 0 THEN << >> ELSE << FlagNoOkr >>
      is_junior_activity == AnyIn(JUNIOR_INDICATORS, text_lower)
      is_senior_activity ==
        \E k \in 1..Len(SENIOR_INDICATORS) :
          \/ Contains(text_lower, SENIOR_INDICATORS[k])
          \/ Contains(attendees_lower, SENIOR_INDICATORS[k])
      attendee_score  == AttendeeScore(is_junior_activity, is_senior_activity)
      flags_junior    == IF is_junior_activity /\ ~is_senior_activity
                           THEN << FlagJunior(meeting.title) >> ELSE << >>
      design  == DesignReviewOverride(meeting.meeting_type, is_junior_activity,
                                      base_type_score)
      intv    == InterviewOverride(meeting.meeting_type, is_junior_activity,
                                   design.type_score)
      vendor  == VendorOverride(meeting.meeting_type, text_lower, intv.type_score)
      status  == StatusOverride(meeting.meeting_type, vendor.type_score)
      sprint  == SprintOverride(meeting.meeting_type, status.type_score)
      flags   == flags_okr \o flags_junior \o design.flags \o intv.flags
                 \o vendor.flags \o status.flags \o sprint.flags
      type4   == sprint.type_score
      time_score  == TimeScore(meeting.meeting_type)
  IN  ScorerReturn([ base_type_score |-> base_type_score,
                     type_score |-> type4, okr_score |-> okr_score,
                     attendee_score |-> attendee_score, time_score |-> time_score,
                     is_junior_activity |-> is_junior_activity,
                     is_senior_activity |-> is_senior_activity,
                     okr_relevance |-> okr_relevance, flags |-> flags ],
                   WeightedScore(type4, okr_score, attendee_score, time_score))

(***************************************************************************)
(* The copy of the matcher and the scorer in api/daily-briefing.py         *)
(***************************************************************************)

briefing_find_okr_relevance(meeting) ==
  LET text_to_search == OkrSearchText(meeting)
  IN  (IF AnyIn(OKR_KEYWORDS.platform_modernization, text_to_search)
         THEN << "Platform Modernization" >> ELSE << >>)
      \o (IF AnyIn(OKR_KEYWORDS.engineering_team, text_to_search)
            THEN << "Build World-Class Engineering Team" >> ELSE << >>)
      \o (IF AnyIn(OKR_KEYWORDS.ai_ml_integration, text_to_search)
            THEN << "AI/ML Integration" >> ELSE << >>)

\* Special case: small vendor demos, as api/daily-briefing.py has it
briefing_VendorOverride(meeting_type, text_lower, type_score) ==
  IF meeting_type = "vendor_demo"
       /\ (Contains(text_lower, "25k") \/ Contains(text_lower, "10k"))
    THEN [type_score |-> 20, flags |-> << FlagVendor >>]
    ELSE [type_score |-> type_score, flags |-> << >>]

\* calculate_alignment_score of api/daily-briefing.py: the local variables when it
\* returns (it returns final_score, flags, recommendation, okr_relevance)
briefing_calculate_alignment_score(meeting) ==
  LET text_lower      == Lower(meeting.title \o " " \o meeting.description)
      attendees_lower == Lower(Join(meeting.attendees))
      base_type_score == BaseTypeScore(meeting.meeting_type)
      okr_relevance   == briefing_find_okr_relevance(meeting)
      okr_score       == OkrScore(okr_relevance)
      flags_okr       == IF Len(okr_relevance) > 0 THEN << >> ELSE << FlagNoOkr >>
      is_junior_activity == AnyIn(JUNIOR_INDICATORS, text_lower)
      is_senior_activity ==
        \E k \in 1..Len(SENIOR_INDICATORS) :
          \/ Contains(text_lower, SENIOR_INDICATORS[k])
          \/ Contains(attendees_lower, SENIOR_INDICATORS[k])
      attendee_score  == AttendeeScore(is_junior_activity, is_senior_activity)
      flags_junior    == IF is_junior_activity /\ ~is_senior_activity
                           THEN << FlagJunior(meeting.title) >> ELSE << >>
      design  == DesignReviewOverride(meeting.meeting_type, is_junior_activity,
                                      base_type_score)
      intv    == InterviewOverride(meeting.meeting_type, is_junior_activity,
                                   design.type_score)
      vendor  == briefing_VendorOverride(meeting.meeting_type, text_lower, intv.type_score)
      status  == StatusOverride(meeting.meeting_type, vendor.type_score)
      sprint  == SprintOverride(meeting.meeting_type, status.type_score)
      flags   == flags_okr \o flags_junior \o design.flags \o intv.flags
                 \o vendor.flags \o status.flags \o sprint.flags
      type4   == sprint.type_score
      time_score  == TimeScore(meeting.meeting_type)
  IN  ScorerReturn([ base_type_score |-> base_type_score,
                     type_score |-> type4, okr_score |-> okr_score,
                     attendee_score |-> attendee_score, time_score |-> time_score,
                     is_junior_activity |-> is_junior_activity,
                     is_senior_activity |-> is_senior_activity,
                     okr_relevance |-> okr_relevance, flags |-> flags ],
                   WeightedScore(type4, okr_score, attendee_score, time_score))

(***************************************************************************)
(* Dates and times: datetime.strptime, isoformat, strftime, round          *)
(***************************************************************************)

Digits == "0123456789"

DigitMap ==
  [c \in {SubSeq(Digits, i, i) : i \in 1..10} |->
     (CHOOSE j \in 1..10 : SubSeq(Digits, j, j) = c) - 1]

IsDigits(s) ==
  Len(s) > 0 /\ \A i \in 1..Len(s) : SubSeq(s, i, i) \in DOMAIN DigitMap

RECURSIVE ParseNat(_)
\* int(s) for a string of digits
ParseNat(s) ==
  IF Len(s) = 0 THEN 0
  ELSE 10 * ParseNat(SubSeq(s, 1, Len(s) - 1)) + DigitMap[SubSeq(s, Len(s), Len(s))]

IsLeap(y) == (y % 4 = 0 /\ y % 100 # 0) \/ y % 400 = 0

DaysInMonth(y, m) ==
  IF m = 2 THEN (IF IsLeap(y) THEN 29 ELSE 28)
  ELSE IF m \in {4, 6, 9, 11} THEN 30 ELSE 31

ParseError == [ok |-> FALSE]

\* datetime.strptime(s, "%Y-%m-%d"): four digits, '-', one or two digits, '-',
\* one or two digits, and a valid calendar date; ValueError otherwise
ParseDate(s) ==
  LET n == Len(s)
      p == IF n >= 7 /\ SubSeq(s, 7, 7) = "-" THEN 7 ELSE 8
      ys == SubSeq(s, 1, 4)
      ms == SubSeq(s, 6, p - 1)
      ds == SubSeq(s, p + 1, n)
  IN  IF /\ n >= 8 /\ n <= 10
         /\ SubSeq(s, 5, 5) = "-" /\ SubSeq(s, p, p) = "-"
         /\ IsDigits(ys) /\ IsDigits(ms) /\ IsDigits(ds)
         /\ Len(ms) <= 2 /\ Len(ds) <= 2
         /\ ParseNat(ys) >= 1
         /\ ParseNat(ms) \in 1..12
         /\ ParseNat(ds) \in 1..DaysInMonth(ParseNat(ys), ParseNat(ms))
        THEN [ok |-> TRUE,
              value |-> [year |-> ParseNat(ys), month |-> ParseNat(ms),
                         day |-> ParseNat(ds)]]
        ELSE ParseError

\* datetime.strptime(s, "%H:%M").time(): one or two digits, ':', one or two digits
ParseTime(s) ==
  LET n == Len(s)
      p == IF n >= 2 /\ SubSeq(s, 2, 2) = ":" THEN 2 ELSE 3
      hs == SubSeq(s, 1, p - 1)
      ms == SubSeq(s, p + 1, n)
  IN  IF /\ n >= 3 /\ n <= 5
         /\ SubSeq(s, p, p) = ":"
         /\ IsDigits(hs) /\ IsDigits(ms) /\ Len(ms) <= 2
         /\ ParseNat(hs) \in 0..23 /\ ParseNat(ms) \in 0..59
        THEN [ok |-> TRUE,
              value |-> [hour |-> ParseNat(hs), minute |-> ParseNat(ms)]]
        ELSE ParseError

DigitStr(d) == SubSeq(Digits, d + 1, d + 1)

\* "%02d"
Pad2(n) == DigitStr((n \div 10) % 10) \o DigitStr(n % 10)

\* "%04d"
Pad4(n) == Pad2(n \div 100) \o Pad2(n % 100)

\* date.isoformat()
IsoFormat(d) == Pad4(d.year) \o "-" \o Pad2(d.month) \o "-" \o Pad2(d.day)

\* time.strftime("%H:%M")
StrfTime(t) == Pad2(t.hour) \o ":" \o Pad2(t.minute)

\* the order of time objects
TimeKey(t) == 60 * t.hour + t.minute

\* round(x, 1) of a non-negative float, as a number of tenths: the tenth
\* nearest to the exact value of x, ties to the even tenth, which is
\* floor((200 x + 10) / 20), one less for a tie that lands on an odd tenth
RoundTenths(x) ==
  IF x.m = << >> THEN 0
  ELSE LET k   == IF x.e < 0 THEN -x.e ELSE 0
           num == BigAdd(BigMulSmall(BigShl(x.m, x.e + k), 200), BigShl(<< 10 >>, k))
           hi  == BigToInt(BigShr(num, k))
           tie == hi % 20 = 0 /\ ~BigLowSet(num, k)
           n   == hi \div 20
       IN  IF tie /\ n % 2 = 1 THEN n - 1 ELSE n

(***************************************************************************)
(* list.sort(key=...): stable insertion into ascending key order           *)
(***************************************************************************)

RECURSIVE InsertByKey_beforeEqual(_, _)
\* insertion in front of the elements with an equal key
InsertByKey_beforeEqual(sorted, x) ==
  IF sorted = << >> THEN << x >>
  ELSE IF x.key <= Head(sorted).key THEN << x >> \o sorted
  ELSE << Head(sorted) >> \o InsertByKey_beforeEqual(Tail(sorted), x)

RECURSIVE InsertByKey(_, _)
\* x goes behind every element whose key is not greater
InsertByKey(sorted, x) ==
  IF sorted = << >> THEN << x >>
  ELSE IF x.key < Head(sorted).key THEN << x >> \o sorted
  ELSE << Head(sorted) >> \o InsertByKey(Tail(sorted), x)

RECURSIVE SortKeyed(_, _)
SortKeyed(todo, done) ==
  IF todo = << >> THEN done
  ELSE SortKeyed(Tail(todo), InsertByKey(done, Head(todo)))

\* items.sort(key=...), keys[i] the integer key of items[i]
SortByKey(items, keys) ==
  LET keyed  == [i \in 1..Len(items) |-> [key |-> keys[i], item |-> items[i]]]
      sorted == SortKeyed(keyed, << >>)
  IN  [i \in 1..Len(items) |-> sorted[i].item]

\* an integer key with the order of the strings: the number of strings of
\* the list that are smaller
StrRank(strs, s) == Cardinality({t \in {strs[i] : i \in 1..Len(strs)} : StrLess(t, s)})

\* [x for x in items if Keep(x)]
RECURSIVE FilterSeq(_, _)
FilterSeq(items, keep) ==
  IF items = << >> THEN << >>
  ELSE (IF keep[1] THEN << Head(items) >> ELSE << >>)
       \o FilterSeq(Tail(items), Tail(keep))

RECURSIVE SumSeq(_)
SumSeq(ns) == IF ns = << >> THEN 0 ELSE Head(ns) + SumSeq(Tail(ns))

\* sum(1 for r in results if ...)
CountTrue(bs) == Cardinality({i \in 1..Len(bs) : bs[i]})

(***************************************************************************)
(* Audit pipeline of the backend (services/calendar_audit.py, main.py)     *)
(***************************************************************************)

\* parse_calendar_csv: date and start_time become date and time objects
\* (the rows of the model hold well-formed dates and times)
parse_calendar_csv(rows) ==
  [i \in 1..Len(rows) |->
     [rows[i] EXCEPT !.date = ParseDate(rows[i].date).value,
                     !.start_time = ParseTime(rows[i].start_time).value]]

AuditResultOf(m, sc, okr_relevance) ==
  [ entry |-> m,
    alignment_score |-> sc.final_score,
    strategic_value |-> get_strategic_value_label(sc.final_score),
    flags |-> sc.flags,
    recommendation |-> sc.recommendation,
    okr_relevance |-> okr_relevance ]

\* the loop of audit_calendar over the parsed meetings
AuditResults(meetings) ==
  [i \in 1..Len(meetings) |->
     AuditResultOf(meetings[i], calculate_alignment_score(meetings[i]),
                   find_okr_relevance(meetings[i]))]

\* results.sort(key=lambda x: x["alignment_score"])
SortByScore(results) ==
  SortByKey(results, [i \in 1..Len(results) |-> results[i].alignment_score])

audit_calendar(rows) == SortByScore(AuditResults(parse_calendar_csv(rows)))

\* int((part / whole * 100) if whole > 0 else 0)
PercentOf(part, whole) ==
  IF whole > 0 THEN FTrunc(FMul(FDivInt(part, whole), FOfInt(100))) ELSE 0

\* the summary of an audit
AuditSummary(results) ==
  LET total == Len(results)
      high_value == CountTrue([i \in 1..total |-> results[i].strategic_value = "High"])
      needs_attention == CountTrue([i \in 1..total |-> results[i].recommendation # "Keep"])
  IN  [ total_meetings |-> total,
        high_strategic_value |-> high_value,
        needs_attention |-> needs_attention,
        health_score |-> PercentOf(high_value, total) ]

\* main.py: the entries of a response get their dates and times as strings
JsonEntries(results) ==
  [i \in 1..Len(results) |->
     [results[i] EXCEPT !.entry.date = IsoFormat(results[i].entry.date),
                        !.entry.start_time = StrfTime(results[i].entry.start_time)]]

\* [r for r in all_results if r["entry"]["date"] == target_date]
OnDate(all_results, target_date) ==
  FilterSeq(all_results,
            [i \in 1..Len(all_results) |-> all_results[i].entry.date = target_date])

\* day_results.sort(key=lambda x: x["entry"]["start_time"]) on time objects
SortByStartTime(day_results) ==
  SortByKey(day_results,
            [i \in 1..Len(day_results) |-> TimeKey(day_results[i].entry.start_time)])

\* the summary statistics of a day and the briefing made of them
BriefingOf(date, day_results) ==
  LET total_minutes == SumSeq([i \in 1..Len(day_results) |->
                                 day_results[i].entry.duration_minutes])
      strategic_minutes ==
        SumSeq([i \in 1..Len(day_results) |->
                  IF day_results[i].strategic_value = "High"
                    THEN day_results[i].entry.duration_minutes ELSE 0])
  IN  [ date |-> date,
        total_meetings |-> Len(day_results),
        total_hours |-> RoundTenths(FDivInt(total_minutes, 60)),
        strategic_hours |-> RoundTenths(FDivInt(strategic_minutes, 60)),
        strategic_percentage |-> PercentOf(strategic_minutes, total_minutes),
        meetings |-> day_results ]

get_daily_briefing(rows, target_date) ==
  BriefingOf(target_date, SortByStartTime(OnDate(audit_calendar(rows), target_date)))

(***************************************************************************)
(* The handlers of api/calendar-audit.py and api/daily-briefing.py: their  *)
(* parse_calendar_csv keeps date and start_time as the text of the row     *)
(***************************************************************************)

\* the result of one meeting, from the four values the scorer returns
HandlerResultOf(m, sc) == AuditResultOf(m, sc, sc.okr_relevance)

audit_handler_results(rows) ==
  SortByScore([i \in 1..Len(rows) |->
                 HandlerResultOf(rows[i], audit_calculate_alignment_score(rows[i]))])

\* a query parameter that was not given (None)
NoDate == [given |-> FALSE]

DateParam(str) == [given |-> TRUE, value |-> str]

\* the loop of the handler over the rows it keeps
briefing_handler_results(rows) ==
  [i \in 1..Len(rows) |->
     HandlerResultOf(rows[i], briefing_calculate_alignment_score(rows[i]))]

\* rows of another date are skipped when a date was given
briefing_handler_keeps(row, target_date) ==
  ~(target_date.given /\ row.date # target_date.value)

\* results.sort(key=lambda x: x["entry"]["start_time"]) on the text of the times
SortByStartText(results) ==
  SortByKey(results,
            [i \in 1..Len(results) |->
               StrRank([j \in 1..Len(results) |-> results[j].entry.start_time],
                       results[i].entry.start_time)])

\* "date": target_date or (results[0]["entry"]["date"] if results else None)
BriefingDate(target_date, results) ==
  IF target_date.given THEN target_date.value
  ELSE IF Len(results) > 0 THEN results[1].entry.date
  ELSE "None"

\* the briefing of the sorted results
HandlerBriefingOf(target_date, results) ==
  BriefingOf(BriefingDate(target_date, results), results)

briefing_handler_response(rows, target_date) ==
  HandlerBriefingOf(
    target_date,
    SortByStartText(
      briefing_handler_results(
        FilterSeq(rows, [i \in 1..Len(rows) |->
                           briefing_handler_keeps(rows[i], target_date)]))))

RECURSIVE SortedStrings(_)
\* sorted(set(...)) of strings: the strings of the set in ascending order
SortedStrings(strs) ==
  IF strs = {} THEN << >>
  ELSE << CHOOSE s \in strs : \A t \in strs : ~StrLess(t, s) >>
       \o SortedStrings(strs \ { CHOOSE s \in strs : \A t \in strs : ~StrLess(t, s) })

\* main.py get_available_dates: set(r["entry"]["date"].isoformat() for r in results)
IsoDates(results) == { IsoFormat(results[i].entry.date) : i \in 1..Len(results) }

\* api/available-dates.py: parse_calendar_csv keeps the date column as text
dates_parse_calendar_csv(rows) == [i \in 1..Len(rows) |-> [date |-> rows[i].date]]

\* api/available-dates.py: set(m["date"] for m in meetings)
TextDates(meetings) == { meetings[i].date : i \in 1..Len(meetings) }

(***************************************************************************)
(* Regular expressions of the style checker, on ASCII text: \w, \s, \d,    *)
(* \b, literals, and greedy runs                                           *)
(***************************************************************************)

WordChars == "abcdefghijklmnopqrstuvwxyzABCDEFGHIJKLMNOPQRSTUVWXYZ0123456789_"

\* \w
WordCharSet == { SubSeq(WordChars, i, i) : i \in 1..Len(WordChars) }

\* \s, and the characters str.strip() and str.split() take for whitespace
SpaceCharSet == { " ", "\t", "\n", "\r", "\f" }

\* \d
DigitCharSet == { SubSeq(Digits, i, i) : i \in 1..Len(Digits) }

IsWordAt(s, i) == i >= 1 /\ i <= Len(s) /\ SubSeq(s, i, i) \in WordCharSet

IsSpaceAt(s, i) == i >= 1 /\ i <= Len(s) /\ SubSeq(s, i, i) \in SpaceCharSet

IsDigitAt(s, i) == i >= 1 /\ i <= Len(s) /\ SubSeq(s, i, i) \in DigitCharSet

\* \b in front of character i (i = Len(s) + 1: at the end)
Boundary(s, i) == IsWordAt(s, i - 1) # IsWordAt(s, i)

\* the literal lit at position i
LitAt(s, i, lit) ==
  i >= 1 /\ i + Len(lit) - 1 <= Len(s) /\ SubSeq(s, i, i + Len(lit) - 1) = lit

RECURSIVE SkipWord(_, _)
\* \w*: the position behind the word characters from i on
SkipWord(s, i) == IF IsWordAt(s, i) THEN SkipWord(s, i + 1) ELSE i

RECURSIVE SkipSpace(_, _)
\* \s*: the position behind the whitespace from i on
SkipSpace(s, i) == IF IsSpaceAt(s, i) THEN SkipSpace(s, i + 1) ELSE i

RECURSIVE SkipDigits(_, _)
\* \d*: the position behind the digits from i on
SkipDigits(s, i) == IF IsDigitAt(s, i) THEN SkipDigits(s, i + 1) ELSE i

\* \w+<suffix>\b at position i: the word that starts at i ends with the suffix
\* and has a character in front of it
WordWithSuffixAt(s, i, suffix) ==
  /\ SkipWord(s, i) - i >= Len(suffix) + 1
  /\ LitAt(s, SkipWord(s, i) - Len(suffix), suffix)

RECURSIVE AltThenSpaceEnd(_, _, _)
\* (w1|w2|...)\s+ at position i: the first alternative with whitespace behind
\* it, and the position behind the whitespace (0: no match)
AltThenSpaceEnd(s, i, lits) ==
  IF lits = << >> THEN 0
  ELSE IF LitAt(s, i, Head(lits)) /\ IsSpaceAt(s, i + Len(Head(lits)))
    THEN SkipSpace(s, i + Len(Head(lits)))
  ELSE AltThenSpaceEnd(s, i, Tail(lits))

\* \b(w1|w2|...)\s+ at position i
WordThenSpace(s, i, words) ==
  IF Boundary(s, i) THEN AltThenSpaceEnd(s, i, words) ELSE 0

\* \b<lit>\b at position i
WholeWordAt(s, i, lit) ==
  Boundary(s, i) /\ LitAt(s, i, lit) /\ Boundary(s, i + Len(lit))

\* len(re.findall(pattern, s)) for a pattern whose matches cannot overlap:
\* the number of positions where it matches
FindAllCount(s, MatchAt(_, _)) == Cardinality({ i \in 1..Len(s) : MatchAt(s, i) })

\* re.search(pattern, s)
Search(s, MatchAt(_, _)) == \E i \in 1..Len(s) : MatchAt(s, i)

RECURSIVE IntStr(_)
\* str(n) for a natural number
IntStr(n) == IF n < 10 THEN DigitStr(n) ELSE IntStr(n \div 10) \o DigitStr(n % 10)

RECURSIVE JoinWith(_, _)
\* sep.join(parts)
JoinWith(parts, sep) ==
  IF Len(parts) = 0 THEN ""
  ELSE IF Len(parts) = 1 THEN parts[1]
  ELSE parts[1] \o sep \o JoinWith(Tail(parts), sep)

RECURSIVE LStrip(_)
LStrip(s) == IF IsSpaceAt(s, 1) THEN LStrip(SubSeq(s, 2, Len(s))) ELSE s

RECURSIVE RStrip(_)
RStrip(s) == IF IsSpaceAt(s, Len(s)) THEN RStrip(SubSeq(s, 1, Len(s) - 1)) ELSE s

\* the text as it is, whitespace kept
Strip_keep(s) == s

\* str.strip()
Strip(s) == RStrip(LStrip(s))

\* the position of the first newline from i on (Len(s) + 1: none)
LineEnd(s, i) ==
  IF \E j \in i..Len(s) : SubSeq(s, j, j) = "\n"
    THEN CHOOSE j \in i..Len(s) :
           /\ SubSeq(s, j, j) = "\n"
           /\ \A k \in i..(j - 1) : SubSeq(s, k, k) # "\n"
    ELSE Len(s) + 1

\* s.split('\n')[0]
FirstLine(s) == SubSeq(s, 1, LineEnd(s, 1) - 1)

\* len(s.split()): the number of runs of characters that are not whitespace
WordCount(s) ==
  Cardinality({ i \in 1..Len(s) : ~IsSpaceAt(s, i) /\ (i = 1 \/ IsSpaceAt(s, i - 1)) })

(***************************************************************************)
(* Style checker (backend/services/style_checker.py).  An issue is the     *)
(* record of its category, its issue text and its severity.                *)
(***************************************************************************)

STYLE_RULES ==
  [ passive_voice |->
      [ aux |-> << "was", "were", "been", "being", "is", "are", "am" >>,
        perfect |-> << "has", "have", "had" >> ],
    vague_terms |->
      << "significant", "substantial", "considerable", "notable",
         "good progress", "great progress", "some progress",
         "many", "several", "various", "a lot", "lots of",
         "soon", "shortly", "eventually", "later" >>,
    action_items |->
      [ headings |-> << "next step", "next steps", "action item", "action items",
                        "todo", "to-do" >>,
        modals |-> << "will", "shall" >>,
        deadlines |-> << "by", "deadline", "due" >> ],
    metrics |->
      [ durations |-> << "hour", "day", "week", "month" >>,
        counts |-> << "user", "customer", "request", "error" >> ],
    pet_peeves |->
      << "sorry to bother", "quick sync", "just checking in", "touching base",
         "circle back", "ping you", "loop you in" >> ]

BlufIndicators ==
  << "status:", "decision:", "ask:", "summary:", "tldr:", "tl;dr:",
     "recommendation:", "request:", "update:", "issue:", "action:" >>

ContextStarters ==
  << "as you know", "i wanted to", "i'm writing to", "following up",
     "per our", "regarding", "in reference", "as discussed" >>

StatusIndicators == << "update", "progress", "status", "report", "weekly" >>

\* the BLUF check on the lowercased first line of the stripped text
BlufIssues(first_line) ==
  IF ~AnyIn(BlufIndicators, first_line)
     /\ \E k \in 1..Len(ContextStarters) : LitAt(first_line, 1, ContextStarters[k])
    THEN << [ category |-> "Structure",
              issue |-> "Message doesn't lead with the main point",
              severity |-> "high" ] >>
    ELSE << >>

check_bluf_structure(text) == BlufIssues(Lower(FirstLine(Strip(text))))

\* \b(was|were|been|being|is|are|am)\s+\w+ed\b at position i
PassiveAt(s, i) ==
  /\ WordThenSpace(s, i, STYLE_RULES.passive_voice.aux) > 0
  /\ WordWithSuffixAt(s, WordThenSpace(s, i, STYLE_RULES.passive_voice.aux), "ed")

\* the position behind "been\s+" at position p (0: no match)
BeenThenSpace(s, p) ==
  IF p > 0 /\ LitAt(s, p, "been") /\ IsSpaceAt(s, p + 4) THEN SkipSpace(s, p + 4) ELSE 0

\* \b(has|have|had)\s+been\s+\w+ed\b at position i
PerfectPassiveAt(s, i) ==
  /\ BeenThenSpace(s, WordThenSpace(s, i, STYLE_RULES.passive_voice.perfect)) > 0
  /\ WordWithSuffixAt(
       s, BeenThenSpace(s, WordThenSpace(s, i, STYLE_RULES.passive_voice.perfect)), "ed")

PassiveIssue(count) ==
  [ category |-> "Clarity",
    issue |-> "Excessive passive voice detected (" \o IntStr(count) \o " instances)",
    severity |-> "medium" ]

\* the loop over the two patterns: the first with more than two matches
PassiveIssues(first_count, second_count) ==
  IF first_count > 2 THEN << PassiveIssue(first_count) >>
  ELSE IF second_count > 2 THEN << PassiveIssue(second_count) >>
  ELSE << >>

PassiveIssuesOf(text_lower) ==
  PassiveIssues(FindAllCount(text_lower, PassiveAt),
                FindAllCount(text_lower, PerfectPassiveAt))

check_passive_voice(text) == PassiveIssuesOf(Lower(text))

\* [term for term in terms if term in text_lower]
FoundTerms(terms, text_lower) ==
  FilterSeq(terms, [k \in 1..Len(terms) |-> Contains(text_lower, terms[k])])

VagueIssues(found_terms) ==
  IF Len(found_terms) > 0
    THEN << [ category |-> "Specificity",
              issue |-> "Vague terms found: "
                        \o JoinWith(SubSeq(found_terms, 1, Min(3, Len(found_terms))), ", ")
                        \o (IF Len(found_terms) > 3 THEN "..." ELSE ""),
              severity |-> "medium" ] >>
    ELSE << >>

check_vague_terms(text) == VagueIssues(FoundTerms(STYLE_RULES.vague_terms, Lower(text)))

\* \b(next steps?|action items?|todo|to-do)\b at position i
HeadingAt(s, i) ==
  \E k \in 1..Len(STYLE_RULES.action_items.headings) :
    WholeWordAt(s, i, STYLE_RULES.action_items.headings[k])

\* \b(will|shall)\s+\w+\b at position i
ModalAt(s, i) == IsWordAt(s, WordThenSpace(s, i, STYLE_RULES.action_items.modals))

\* \[@\w+\] at position i
MentionAt(s, i) ==
  /\ LitAt(s, i, "[@")
  /\ SkipWord(s, i + 2) > i + 2
  /\ LitAt(s, SkipWord(s, i + 2), "]")

\* \b(by|deadline|due)\s+\w+day\b at position i
DeadlineAt(s, i) ==
  /\ WordThenSpace(s, i, STYLE_RULES.action_items.deadlines) > 0
  /\ WordWithSuffixAt(s, WordThenSpace(s, i, STYLE_RULES.action_items.deadlines), "day")

ActionIssues(word_count, has_action_items) ==
  IF word_count > 50 /\ ~has_action_items
    THEN << [ category |-> "Actionability",
              issue |-> "No clear action items or next steps detected",
              severity |-> "high" ] >>
    ELSE << >>

HasActionItems(text_lower) ==
  \/ Search(text_lower, HeadingAt)
  \/ Search(text_lower, ModalAt)
  \/ Search(text_lower, MentionAt)
  \/ Search(text_lower, DeadlineAt)

check_action_items(text) == ActionIssues(WordCount(text), HasActionItems(Lower(text)))

\* \d+% at position i
PercentAt(s, i) == IsDigitAt(s, i) /\ LitAt(s, SkipDigits(s, i), "%")

\* \d+\s*(unit1|unit2|...) at position i
QuantityAt(s, i, units) ==
  /\ IsDigitAt(s, i)
  /\ \E k \in 1..Len(units) : LitAt(s, SkipSpace(s, SkipDigits(s, i)), units[k])

DurationAt(s, i) == QuantityAt(s, i, STYLE_RULES.metrics.durations)

\* \$\d+ at position i
AmountAt(s, i) == LitAt(s, i, "$") /\ IsDigitAt(s, i + 1)

CountAt(s, i) == QuantityAt(s, i, STYLE_RULES.metrics.counts)

\* the metric patterns are searched in the text as it was given
HasMetrics(text) ==
  \/ Search(text, PercentAt)
  \/ Search(text, DurationAt)
  \/ Search(text, AmountAt)
  \/ Search(text, CountAt)

MetricIssues(is_status_message, has_metrics) ==
  IF is_status_message /\ ~has_metrics
    THEN << [ category |-> "Data",
              issue |-> "Status update lacks quantified metrics",
              severity |-> "medium" ] >>
    ELSE << >>

check_metrics(text) == MetricIssues(AnyIn(StatusIndicators, Lower(text)), HasMetrics(text))

PetPeeveIssue(term) ==
  [ category |-> "Tone",
    issue |-> "Pet peeve phrase detected: '" \o term \o "'",
    severity |-> "low" ]

PetPeeveIssues(found_terms) ==
  [k \in 1..Len(found_terms) |-> PetPeeveIssue(found_terms[k])]

check_pet_peeves(text) == PetPeeveIssues(FoundTerms(STYLE_RULES.pet_peeves, Lower(text)))

\* \b<word>\b.*\b<word>\b at position i: the word again on the same line
RepeatedAt(s, i, word) ==
  /\ WholeWordAt(s, i, word)
  /\ \E j \in (i + Len(word))..LineEnd(s, i) : WholeWordAt(s, j, word)

SorryTwiceAt(s, i) == RepeatedAt(s, i, "sorry")

ApologizeTwiceAt(s, i) == RepeatedAt(s, i, "apologize")

\* ^sorry\b
StartsWithSorry(s) == LitAt(s, 1, "sorry") /\ Boundary(s, 6)

ApologyIssues(over_apologizing) ==
  IF over_apologizing
    THEN << [ category |-> "Tone", issue |-> "Over-apologizing detected",
              severity |-> "low" ] >>
    ELSE << >>

OverApologizing(text_lower) ==
  \/ Search(text_lower, SorryTwiceAt)
  \/ Search(text_lower, ApologizeTwiceAt)
  \/ StartsWithSorry(text_lower)

check_over_apologizing(text) == ApologyIssues(OverApologizing(Lower(text)))

\* the deduction of one issue
Deduction(issue) ==
  IF issue.severity = "high" THEN 20
  ELSE IF issue.severity = "medium" THEN 10
  ELSE 5

Max(a, b) == IF a > b THEN a ELSE b

\* the score without the clamp at 0
calculate_style_score_noClamp(issues) ==
  100 - SumSeq([k \in 1..Len(issues) |-> Deduction(issues[k])])

calculate_style_score(issues) ==
  Max(0, 100 - SumSeq([k \in 1..Len(issues) |-> Deduction(issues[k])]))

\* the summary with the first threshold above 85
generate_summary_above85(score_) ==
  IF score_ > 85
    THEN "Excellent! Your message follows the communication style guidelines well."
  ELSE IF score_ >= 70
    THEN "Good structure, but consider the suggestions above for improvement."
  ELSE IF score_ >= 50
    THEN "Several areas need attention. Review the issues and apply the suggestions."
  ELSE "This message needs significant revision to align with communication guidelines."

generate_summary(score_) ==
  IF score_ >= 85
    THEN "Excellent! Your message follows the communication style guidelines well."
  ELSE IF score_ >= 70
    THEN "Good structure, but consider the suggestions above for improvement."
  ELSE IF score_ >= 50
    THEN "Several areas need attention. Review the issues and apply the suggestions."
  ELSE "This message needs significant revision to align with communication guidelines."

\* the result of a style check from the issues found
StyleResult(issues) ==
  [ score |-> calculate_style_score(issues),
    issues |-> issues,
    summary |-> generate_summary(calculate_style_score(issues)) ]

\* the checks with the pet peeves in front of the metrics
check_communication_style_peevesFirst(text) ==
  StyleResult(check_bluf_structure(text) \o check_passive_voice(text)
              \o check_vague_terms(text) \o check_action_items(text)
              \o check_pet_peeves(text) \o check_metrics(text)
              \o check_over_apologizing(text))

check_communication_style(text) ==
  StyleResult(check_bluf_structure(text) \o check_passive_voice(text)
              \o check_vague_terms(text) \o check_action_items(text)
              \o check_metrics(text) \o check_pet_peeves(text)
              \o check_over_apologizing(text))

(***************************************************************************)
(* The style checker of api/check-style.py: the same checks, with two      *)
(* action patterns and without the metrics check                           *)
(***************************************************************************)

handler_HasActionItems(text_lower) ==
  Search(text_lower, HeadingAt) \/ Search(text_lower, ModalAt)

handler_check_action_items(text) ==
  ActionIssues(WordCount(text), handler_HasActionItems(Lower(text)))

handler_check_style(text) ==
  StyleResult(check_bluf_structure(text) \o check_passive_voice(text)
              \o check_vague_terms(text) \o handler_check_action_items(text)
              \o check_pet_peeves(text) \o check_over_apologizing(text))

(***************************************************************************)
(* State                                                                   *)
(***************************************************************************)

VARIABLES
  meeting,    \* the Meeting Record handed to the scorer
  scored,     \* which copy of calculate_alignment_score ran last, and its result
  score,      \* an alignment score handed to the two label functions
  labels,     \* their results
  csv,        \* the rows of calendar_sample.csv, as parse_calendar_csv reads them
  today,      \* datetime.now().date()
  response,   \* the response of the last request
  message,    \* the text handed to the style checker
  calls,      \* the calls of the scorer so far: argument, record afterwards, result
  file,       \* the feedback file
  before,     \* the feedback entries of the file before the requests
  reqs,       \* the save_feedback requests: position, loaded data, entry
  icloud      \* the iCloud CalDAV server: its answers, and the requests it received

vars == << meeting, scored, score, labels, csv, today, response,
          message, calls, file, before, reqs, icloud >>

(***************************************************************************)
(* Inputs of the scorer: every combination of these titles, descriptions,  *)
(* meeting types and attendee lists                                        *)
(***************************************************************************)

Titles ==
  { "Weekly status", "K8s Migration", "AI Roadmap", "Onboarding",
    "Junior Intern sync", "Coffee Chat", "Board deck", "Tool demo 25k",
    "Tool demo 100K", "Email triage", "Lunch", "Principal hire" }

Descriptions ==
  { "", "hiring plan", "renewal 200k not 10k", "new hire", "search POC",
    "Platform uptime" }

KnownTypes == DOMAIN MEETING_TYPE_SCORES

MeetingTypes == KnownTypes \cup { "mentorship", "offsite" }

AttendeeLists == { << "" >>, << "Ann", "Raj" >>, << "Hector", "Dana (VP)" >> }

MeetingInputs ==
  [ id : {1}, title : Titles, description : Descriptions,
    meeting_type : MeetingTypes, attendees : AttendeeLists,
    date : {"2024-01-15"}, start_time : {"09:00"}, duration_minutes : {30} ]

NotScored == [copy |-> "none"]

NoLabels == [strategic_value |-> "", recommendation |-> ""]

NoResponse == [status |-> 0]

\* the feedback file does not exist
AbsentFile == [state |-> "absent"]

\* no connect call reached the CalDAV server
NoICloud == [answers |-> << >>, requests |-> << >>]

\* no scorer call is recorded
NoScorerState ==
  /\ meeting = CHOOSE m \in MeetingInputs : TRUE
  /\ scored = NotScored
  /\ score = 0
  /\ labels = NoLabels
  /\ calls = << >>

\* no feedback request exists
NoFeedbackState ==
  /\ file = AbsentFile
  /\ before = << >>
  /\ reqs = << >>

\* no style check or feedback request is under way
NoStyleOrFeedback ==
  /\ message = ""
  /\ calls = << >>
  /\ NoFeedbackState

(***************************************************************************)
(* The scorer applied to one Meeting Record                                *)
(***************************************************************************)

InitScore ==
  /\ icloud = NoICloud
  /\ NoStyleOrFeedback
  /\ meeting \in MeetingInputs
  /\ scored = NotScored
  /\ score = 0
  /\ labels = NoLabels
  /\ csv = << >>
  /\ today = [year |-> 2024, month |-> 1, day |-> 15]
  /\ response = NoResponse

\* backend/services/calendar_audit.py: calculate_alignment_score(meeting)
ScoreBackend ==
  /\ scored = NotScored
  /\ scored' = [copy |-> "backend", ret |-> calculate_alignment_score(meeting)]
  /\ UNCHANGED << meeting, score, labels, csv, today, response, message, calls, file, before, reqs, icloud >>

\* api/calendar-audit.py: calculate_alignment_score(meeting)
ScoreAuditHandler ==
  /\ scored = NotScored
  /\ scored' = [copy |-> "audit", ret |-> audit_calculate_alignment_score(meeting)]
  /\ UNCHANGED << meeting, score, labels, csv, today, response, message, calls, file, before, reqs, icloud >>

\* api/daily-briefing.py: calculate_alignment_score(meeting)
ScoreBriefingHandler ==
  /\ scored = NotScored
  /\ scored' = [copy |-> "briefing", ret |-> briefing_calculate_alignment_score(meeting)]
  /\ UNCHANGED << meeting, score, labels, csv, today, response, message, calls, file, before, reqs, icloud >>

NextScore == ScoreBackend \/ ScoreAuditHandler \/ ScoreBriefingHandler

SpecScore == InitScore /\ [][NextScore]_vars

(***************************************************************************)
(* The label functions applied to one score                                *)
(***************************************************************************)

Scores == 0..100

InitLabel ==
  /\ icloud = NoICloud
  /\ NoStyleOrFeedback
  /\ score \in Scores
  /\ labels = NoLabels
  /\ meeting = CHOOSE m \in MeetingInputs : TRUE
  /\ scored = NotScored
  /\ csv = << >>
  /\ today = [year |-> 2024, month |-> 1, day |-> 15]
  /\ response = NoResponse

\* get_strategic_value_label(score), and the recommendation that
\* calculate_alignment_score derives from a final score
LabelScore ==
  /\ labels = NoLabels
  /\ labels' = [strategic_value |-> get_strategic_value_label(score),
                recommendation |-> Recommendation(score)]
  /\ UNCHANGED << meeting, scored, score, csv, today, response, message, calls, file, before, reqs, icloud >>

NextLabel == LabelScore

SpecLabel == InitLabel /\ [][NextLabel]_vars

(***************************************************************************)
(* The requests: one request is answered from the rows of the calendar CSV *)
(***************************************************************************)

MaxMeetings == 3

\* rows of the calendar (the id is the position in the file)
PoolRows ==
  { [ id |-> 0, title |-> "AI platform", description |-> "",
      meeting_type |-> "architecture", attendees |-> << "Dana (VP)" >>,
      date |-> "2024-01-15", start_time |-> "10:00", duration_minutes |-> 120 ],
    [ id |-> 0, title |-> "1:1 mentor", description |-> "",
      meeting_type |-> "one_on_one", attendees |-> << "Raj" >>,
      date |-> "2024-01-15", start_time |-> "9:00", duration_minutes |-> 25 ],
    [ id |-> 0, title |-> "Weekly status", description |-> "",
      meeting_type |-> "status_update", attendees |-> << "" >>,
      date |-> "2024-01-15", start_time |-> "14:00", duration_minutes |-> 105 ],
    [ id |-> 0, title |-> "Investor call", description |-> "",
      meeting_type |-> "external", attendees |-> << "Ann", "Raj" >>,
      date |-> "2024-01-16", start_time |-> "09:00", duration_minutes |-> 60 ],
    [ id |-> 0, title |-> "Lunch", description |-> "",
      meeting_type |-> "adhoc", attendees |-> << "Ann" >>,
      date |-> "2024-1-15", start_time |-> "10:00", duration_minutes |-> 30 ] }

WithIds(rows) == [i \in 1..Len(rows) |-> [rows[i] EXCEPT !.id = i]]

Calendars == { WithIds(rows) : rows \in UNION { [1..n -> PoolRows] : n \in 0..MaxMeetings } }

Todays == { [year |-> 2024, month |-> 1, day |-> 15],
            [year |-> 2024, month |-> 1, day |-> 17] }

\* the `date` query parameter of a daily-briefing request
QueryDates ==
  { NoDate, DateParam("2024-01-15"), DateParam("2024-01-16"),
    DateParam("2024-1-15"), DateParam("15/01/2024") }

Init ==
  /\ icloud = NoICloud
  /\ NoStyleOrFeedback
  /\ csv \in Calendars
  /\ today \in Todays
  /\ response = NoResponse
  /\ meeting = CHOOSE m \in MeetingInputs : TRUE
  /\ scored = NotScored
  /\ score = 0
  /\ labels = NoLabels

\* the response of an audit: the summary and the meetings
AuditResponse(handler, results) ==
  [ handler |-> handler, status |-> 200,
    summary |-> AuditSummary(results), meetings |-> results ]

\* main.py: the date of the briefing and of its entries as strings
JsonBriefing(briefing) ==
  [briefing EXCEPT !.date = IsoFormat(briefing.date),
                   !.meetings = JsonEntries(briefing.meetings)]

\* backend/main.py: GET /api/calendar-audit
get_calendar_audit ==
  /\ response = NoResponse
  /\ response' = AuditResponse("backend/calendar-audit",
                                 JsonEntries(audit_calendar(csv)))
  /\ UNCHANGED << meeting, scored, score, labels, csv, today, message, calls, file, before, reqs, icloud >>

\* api/calendar-audit.py: handler.do_GET
audit_handler_do_GET ==
  /\ response = NoResponse
  /\ response' = AuditResponse("api/calendar-audit", audit_handler_results(csv))
  /\ UNCHANGED << meeting, scored, score, labels, csv, today, message, calls, file, before, reqs, icloud >>

\* backend/main.py: GET /api/daily-briefing?date=...
get_daily_briefing_endpoint(date) ==
  /\ response = NoResponse
  /\ IF date.given /\ date.value # "" /\ ~ParseDate(date.value).ok
       THEN response' = [ handler |-> "backend/daily-briefing", query |-> date,
                          status |-> 400, detail |-> "Invalid date format" ]
       ELSE response' =
              [ handler |-> "backend/daily-briefing", query |-> date,
                status |-> 200,
                briefing |-> JsonBriefing(
                  get_daily_briefing(csv, IF date.given /\ date.value # ""
                                            THEN ParseDate(date.value).value
                                            ELSE today)) ]
  /\ UNCHANGED << meeting, scored, score, labels, csv, today, message, calls, file, before, reqs, icloud >>

\* api/daily-briefing.py: handler.do_GET
briefing_handler_do_GET(date) ==
  /\ response = NoResponse
  /\ response' = [ handler |-> "api/daily-briefing", query |-> date,
                   status |-> 200,
                   briefing |-> briefing_handler_response(csv, date) ]
  /\ UNCHANGED << meeting, scored, score, labels, csv, today, message, calls, file, before, reqs, icloud >>

\* backend/main.py: GET /api/available-dates
get_available_dates ==
  /\ response = NoResponse
  /\ response' = [ handler |-> "backend/available-dates", status |-> 200,
                   dates |-> SortedStrings(IsoDates(audit_calendar(csv))) ]
  /\ UNCHANGED << meeting, scored, score, labels, csv, today, message, calls, file, before, reqs, icloud >>

\* api/available-dates.py: handler.do_GET
dates_handler_do_GET ==
  /\ response = NoResponse
  /\ response' = [ handler |-> "api/available-dates", status |-> 200,
                   dates |-> SortedStrings(TextDates(dates_parse_calendar_csv(csv))) ]
  /\ UNCHANGED << meeting, scored, score, labels, csv, today, message, calls, file, before, reqs, icloud >>

Next ==
  \/ get_calendar_audit
  \/ audit_handler_do_GET
  \/ \E date \in QueryDates : get_daily_briefing_endpoint(date)
  \/ \E date \in QueryDates : briefing_handler_do_GET(date)
  \/ get_available_dates
  \/ dates_handler_do_GET

Spec == Init /\ [][Next]_vars

(***************************************************************************)
(* Audits of larger calendars: some rows of high strategic value and some  *)
(* other rows                                                              *)
(***************************************************************************)

MaxHigh == 29

MaxOther == 21

HighRow ==
  [ id |-> 0, title |-> "AI platform", description |-> "",
    meeting_type |-> "architecture", attendees |-> << "Dana (VP)" >>,
    date |-> "2024-01-15", start_time |-> "10:00", duration_minutes |-> 120 ]

OtherRow ==
  [ id |-> 0, title |-> "Lunch", description |-> "",
    meeting_type |-> "adhoc", attendees |-> << "Ann" >>,
    date |-> "2024-01-16", start_time |-> "12:00", duration_minutes |-> 30 ]

InitSummary ==
  /\ icloud = NoICloud
  /\ NoStyleOrFeedback
  /\ \E h \in 0..MaxHigh, l \in 0..MaxOther :
       csv = WithIds([i \in 1..(h + l) |-> IF i <= l THEN OtherRow ELSE HighRow])
  /\ today = [year |-> 2024, month |-> 1, day |-> 15]
  /\ response = NoResponse
  /\ meeting = CHOOSE m \in MeetingInputs : TRUE
  /\ scored = NotScored
  /\ score = 0
  /\ labels = NoLabels

NextSummary == get_calendar_audit \/ audit_handler_do_GET

SpecSummary == InitSummary /\ [][NextSummary]_vars

(***************************************************************************)
(* Repeated calls of the scorer of the backend.  A call gets its Meeting   *)
(* Record by reference and reads the tables of the module; calls records   *)
(* the argument, the record and the tables as they are after the call, and *)
(* what the call returned.                                                 *)
(***************************************************************************)

MaxCalls == 3

RepeatMeetings ==
  { m \in MeetingInputs :
      /\ << m.title, m.meeting_type >> \in
           { << "Weekly status", "status_update" >>, << "Tool demo 25k", "vendor_demo" >>,
             << "K8s Migration", "architecture" >>, << "Junior Intern sync", "one_on_one" >>,
             << "AI Roadmap", "offsite" >> }
      /\ m.description = ""
      /\ m.attendees = << "" >> }

\* the tables the scorer reads
ModuleTables ==
  [ OKR_KEYWORDS |-> OKR_KEYWORDS, MEETING_TYPE_SCORES |-> MEETING_TYPE_SCORES,
    JUNIOR_INDICATORS |-> JUNIOR_INDICATORS, SENIOR_INDICATORS |-> SENIOR_INDICATORS ]

\* the flags of the call before this one (none before the first call)
EarlierFlags == IF calls = << >> THEN << >> ELSE calls[Len(calls)].ret.flags

\* the flag list as a call of the scorer could start from it when the list
\* of the call before were kept
FreshFlags_shared(earlier) == earlier

\* flags = []: every call starts from a new empty list
FreshFlags(earlier) == << >>

\* the call appends its flags to the list it started from; it assigns to no
\* key of the record and to no table
CallOf(m, ret, flags) ==
  [ meeting |-> m, after |-> m, tables |-> ModuleTables,
    ret |-> [ret EXCEPT !.flags = flags \o ret.flags] ]

InitRepeat ==
  /\ icloud = NoICloud
  /\ NoScorerState
  /\ NoFeedbackState
  /\ message = ""
  /\ csv = << >>
  /\ today = [year |-> 2024, month |-> 1, day |-> 15]
  /\ response = NoResponse

\* one more call calculate_alignment_score(m)
CallScorer(m) ==
  /\ Len(calls) < MaxCalls
  /\ calls' = Append(calls, CallOf(m, calculate_alignment_score(m), FreshFlags(EarlierFlags)))
  /\ meeting' = m
  /\ UNCHANGED << scored, score, labels, csv, today, response, message, file, before, reqs, icloud >>

NextRepeat == \E m \in RepeatMeetings : CallScorer(m)

SpecRepeat == InitRepeat /\ [][NextRepeat]_vars

(***************************************************************************)
(* The style checker applied to one text                                   *)
(***************************************************************************)

\* first lines, and texts that are empty or whitespace
StyleOpeners ==
  { "I wanted to update you on the project.",
    "Status: I wanted to ship.",
    "Regarding the update: launch moved.",
    "Sorry, the build broke.",
    " \n\tAs discussed, the plan holds.",
    "Team,\nI wanted to share the plan." }

StylePassives ==
  { "",
    " It was completed. It was reviewed. It was approved.",
    " It was completed. It is\n reviewed.",
    " It has been completed, had been reviewed, have been approved." }

AllPetPeeves ==
  " Significant delays. Sorry to bother you with a quick sync, just checking in and"
  \o " touching base; I'll circle back, ping you and loop you in. Sorry."

StyleExtras ==
  { "",
    " 35% done.",
    " Took 3 Days.",
    " Costs $5 for 12 users.",
    " Several notable gains, a lot of them, eventually.",
    " I apologize.\nI apologize for the report.",
    " Quick sync? sorry\nsorry.",
    AllPetPeeves }

Filler18 ==
  " The team met the client and walked through each open item in the plan one at a time."

StyleFillers ==
  { "",
    Filler18 \o Filler18 \o Filler18,
    Filler18 \o Filler18 \o Filler18 \o " Dana shall ship it due Friday [@dana]." }

BlankTexts == { "", " ", " \n\t " }

StyleTexts ==
  BlankTexts \cup
  { o \o p \o e \o f :
      o \in StyleOpeners, p \in StylePassives, e \in StyleExtras, f \in StyleFillers }

InitStyle ==
  /\ icloud = NoICloud
  /\ message \in StyleTexts
  /\ response = NoResponse
  /\ NoScorerState
  /\ csv = << >>
  /\ today = [year |-> 2024, month |-> 1, day |-> 15]
  /\ NoFeedbackState

\* backend/main.py: POST /api/check-style
check_style ==
  /\ response = NoResponse
  /\ response' =
       IF Strip(message) = ""
         THEN [ handler |-> "backend/check-style", status |-> 400,
                detail |-> "Text cannot be empty" ]
         ELSE [ handler |-> "backend/check-style", status |-> 200,
                result |-> check_communication_style(message) ]
  /\ UNCHANGED << meeting, scored, score, labels, csv, today, message, calls, file, before, reqs, icloud >>

\* api/check-style.py: handler.do_POST
check_style_handler_do_POST ==
  /\ response = NoResponse
  /\ response' =
       IF Strip(message) = ""
         THEN [ handler |-> "api/check-style", status |-> 400,
                error |-> "Text cannot be empty" ]
         ELSE [ handler |-> "api/check-style", status |-> 200,
                result |-> handler_check_style(message) ]
  /\ UNCHANGED << meeting, scored, score, labels, csv, today, message, calls, file, before, reqs, icloud >>

NextStyle == check_style \/ check_style_handler_do_POST

SpecStyle == InitStyle /\ [][NextStyle]_vars

(***************************************************************************)
(* The feedback file of the backend and concurrent requests.  The          *)
(* endpoints run in the threads of the server's pool, so the steps of      *)
(* requests interleave at the operations on the file: reading it, opening  *)
(* it for writing (which truncates it) and writing the buffered JSON text  *)
(* when it is closed.                                                      *)
(***************************************************************************)

MaxRequests == 2

FeedbackActions == { "keep", "decline" }

OldEntry == [ meeting_id |-> 0, action |-> "delegate", notes |-> "old" ]

\* the file holds the JSON text of {"feedback": entries}
FileData(entries) == [ state |-> "data", feedback |-> entries ]

\* the file after open(FEEDBACK_FILE, 'w'): no bytes
EmptyFile == [ state |-> "empty" ]

\* bytes that are no JSON text: a text written over the start of a longer one
CorruptFile(size) == [ state |-> "corrupt", size |-> size ]

\* json.load succeeds on a missing file's default and on a JSON text
Loadable(f) == f.state \in { "absent", "data" }

\* data["feedback"] after the load
LoadedFeedback(f) == IF f.state = "data" THEN f.feedback ELSE << >>

\* the entry of the n-th request, without its timestamp
FeedbackEntry(n, action) == [ meeting_id |-> n, action |-> action, notes |-> "" ]

\* the characters of one entry in json.dump(data, f, indent=2): a meeting_id
\* of one digit, the action, the notes and a timestamp
\* datetime.now().isoformat() of 26 characters
EntrySize(entry) == 121 + Len(entry.action) + Len(entry.notes)

\* the characters of the JSON text of {"feedback": entries}
JsonSize(entries) ==
  IF entries = << >> THEN 20
  ELSE 22 + SumSeq([k \in 1..Len(entries) |-> EntrySize(entries[k]) + 2])

\* the bytes in the file
FileSize(f) ==
  IF f.state = "data" THEN JsonSize(f.feedback)
  ELSE IF f.state = "corrupt" THEN f.size
  ELSE 0

\* what the close of a file opened with 'w' leaves: the buffered text is
\* written at offset 0; over a longer text of another writer it leaves its
\* text and the rest of the other
WrittenFile(f, data) ==
  IF JsonSize(data) >= FileSize(f) THEN FileData(data) ELSE CorruptFile(FileSize(f))

InitFeedback ==
  /\ icloud = NoICloud
  /\ NoScorerState
  /\ message = ""
  /\ csv = << >>
  /\ today = [year |-> 2024, month |-> 1, day |-> 15]
  /\ response = NoResponse
  /\ before \in { << >>, << OldEntry >> }
  /\ file \in (IF before = << >> THEN { AbsentFile } ELSE {}) \cup { FileData(before) }
  /\ reqs = << >>

\* a POST /api/feedback request arrives
save_feedback_arrives(action) ==
  /\ Len(reqs) < MaxRequests
  /\ reqs' = Append(reqs, [ pc |-> "start", data |-> << >>,
                            entry |-> FeedbackEntry(Len(reqs) + 1, action) ])
  /\ UNCHANGED << meeting, scored, score, labels, csv, today, response, message, calls, file, before, icloud >>

\* save_feedback: load the existing feedback and append the entry to it;
\* a file that is no JSON text raises, and the request ends with 500
save_feedback_load(i) ==
  /\ reqs[i].pc = "start"
  /\ reqs' = IF Loadable(file)
               THEN [reqs EXCEPT ![i].pc = "loaded",
                                 ![i].data = Append(LoadedFeedback(file), reqs[i].entry)]
               ELSE [reqs EXCEPT ![i].pc = "failed"]
  /\ UNCHANGED << meeting, scored, score, labels, csv, today, response, message, calls, file, before, icloud >>

\* save_feedback: open(FEEDBACK_FILE, 'w')
save_feedback_open(i) ==
  /\ reqs[i].pc = "loaded"
  /\ file' = EmptyFile
  /\ reqs' = [reqs EXCEPT ![i].pc = "opened"]
  /\ UNCHANGED << meeting, scored, score, labels, csv, today, response, message, calls, before, icloud >>

\* save_feedback: json.dump(data, f) and the close of the file
save_feedback_dump(i) ==
  /\ reqs[i].pc = "opened"
  /\ file' = WrittenFile(file, reqs[i].data)
  /\ reqs' = [reqs EXCEPT ![i].pc = "written"]
  /\ UNCHANGED << meeting, scored, score, labels, csv, today, response, message, calls, before, icloud >>

\* save_feedback: return {"status": "saved", "entry": feedback_entry}
save_feedback_return(i) ==
  /\ reqs[i].pc = "written"
  /\ reqs' = [reqs EXCEPT ![i].pc = "saved"]
  /\ response' = [ handler |-> "backend/save-feedback", status |-> 200,
                   body |-> [ status |-> "saved", entry |-> reqs[i].entry ] ]
  /\ UNCHANGED << meeting, scored, score, labels, csv, today, message, calls, file, before, icloud >>

\* backend/main.py: GET /api/feedback
get_feedback ==
  /\ response' = IF Loadable(file)
                   THEN [ handler |-> "backend/get-feedback", status |-> 200,
                          body |-> [ feedback |-> LoadedFeedback(file) ] ]
                   ELSE [ handler |-> "backend/get-feedback", status |-> 500 ]
  /\ UNCHANGED << meeting, scored, score, labels, csv, today, message, calls, file, before, reqs, icloud >>

NextFeedback ==
  \/ \E action \in FeedbackActions : save_feedback_arrives(action)
  \/ \E i \in 1..Len(reqs) : save_feedback_load(i)
  \/ \E i \in 1..Len(reqs) : save_feedback_open(i)
  \/ \E i \in 1..Len(reqs) : save_feedback_dump(i)
  \/ \E i \in 1..Len(reqs) : save_feedback_return(i)
  \/ get_feedback

SpecFeedback == InitFeedback /\ [][NextFeedback]_vars

(***************************************************************************)
(* api/calendar/apple.py: the connect call of the Apple calendar connector *)
(***************************************************************************)

ICLOUD_CALDAV_BASE == "https://caldav.icloud.com"

\* str.startswith
StartsWith(s, prefix) ==
  Len(s) >= Len(prefix) /\ SubSeq(s, 1, Len(prefix)) = prefix

\* str.rstrip('/')
RECURSIVE RStripSlash(_)
RStripSlash(s) ==
  IF Len(s) > 0 /\ SubSeq(s, Len(s), Len(s)) = "/"
    THEN RStripSlash(SubSeq(s, 1, Len(s) - 1))
    ELSE s

\* str.replace(' ', '')
RECURSIVE RemoveSpaces(_)
RemoveSpaces(s) ==
  IF s = "" THEN ""
  ELSE IF SubSeq(s, 1, 1) = " " THEN RemoveSpaces(SubSeq(s, 2, Len(s)))
  ELSE SubSeq(s, 1, 1) \o RemoveSpaces(SubSeq(s, 2, Len(s)))

resolve_url(base_url, path) ==
  IF StartsWith(path, "http://") \/ StartsWith(path, "https://") THEN path
  ELSE IF StartsWith(path, "/") THEN ICLOUD_CALDAV_BASE \o path
  ELSE RStripSlash(base_url) \o "/" \o path

\* None, for a calendar home that was not found
NoUrl == ""

\* urlopen raises HTTPError for an answer that is no success
IsHTTPError(answer) == answer.status >= 400

\* one request of _make_request and the status of the server's answer
Exchange(method, url, depth, answer) ==
  [ method |-> method, url |-> url, depth |-> depth, status |-> answer.status ]

\* what a step of the discovery hands back: the code of the HTTPError it
\* raised (0: none), the calendar home it returned, the requests made so far
Discovered(raised, home, requests) ==
  [ raised |-> raised, home |-> home, requests |-> requests ]

direct_paths(apple_id) ==
  << "/" \o apple_id \o "/calendars/", "/calendars/home/" \o apple_id \o "/" >>

\* _discover_calendar_home, method 1: the direct paths from the k-th on;
\* 207 returns the url, 401 is raised again, anything else tries the next
RECURSIVE try_direct_paths(_, _, _, _)
try_direct_paths(answers, paths, k, requests) ==
  IF k > Len(paths) THEN Discovered(0, NoUrl, requests)
  ELSE IF answers.direct[k].status = 207
    THEN Discovered(0, resolve_url(ICLOUD_CALDAV_BASE, paths[k]),
                    Append(requests,
                           Exchange("PROPFIND", resolve_url(ICLOUD_CALDAV_BASE, paths[k]),
                                    "0", answers.direct[k])))
  ELSE IF answers.direct[k].status = 401
    THEN Discovered(401, NoUrl,
                    Append(requests,
                           Exchange("PROPFIND", resolve_url(ICLOUD_CALDAV_BASE, paths[k]),
                                    "0", answers.direct[k])))
  ELSE try_direct_paths(answers, paths, k + 1,
                        Append(requests,
                               Exchange("PROPFIND", resolve_url(ICLOUD_CALDAV_BASE, paths[k]),
                                        "0", answers.direct[k])))

\* _get_calendar_home_from_principal: every exception ends in None
get_calendar_home_from_principal(answers, principal_url, requests) ==
  Discovered(0,
             IF ~IsHTTPError(answers.principal) /\ answers.principal.href # ""
               THEN resolve_url(ICLOUD_CALDAV_BASE, Strip(answers.principal.href))
               ELSE NoUrl,
             Append(requests, Exchange("PROPFIND", principal_url, "0", answers.principal)))

\* _discover_calendar_home, method 2: the principal discovery at the root;
\* the body holds the href each of the two searches finds ("": no match)
discover_via_principal(answers, requests) ==
  IF IsHTTPError(answers.root)
    THEN Discovered(IF answers.root.status = 401 THEN 401 ELSE 0, NoUrl,
                    Append(requests,
                           Exchange("PROPFIND", ICLOUD_CALDAV_BASE \o "/", "0", answers.root)))
  ELSE IF answers.root.home # ""
    THEN Discovered(0, resolve_url(ICLOUD_CALDAV_BASE, Strip(answers.root.home)),
                    Append(requests,
                           Exchange("PROPFIND", ICLOUD_CALDAV_BASE \o "/", "0", answers.root)))
  ELSE IF answers.root.principal # ""
    THEN get_calendar_home_from_principal(
           answers, resolve_url(ICLOUD_CALDAV_BASE, Strip(answers.root.principal)),
           Append(requests,
                  Exchange("PROPFIND", ICLOUD_CALDAV_BASE \o "/", "0", answers.root)))
  ELSE Discovered(0, NoUrl,
                  Append(requests,
                         Exchange("PROPFIND", ICLOUD_CALDAV_BASE \o "/", "0", answers.root)))

DiscoverAfterDirect(answers, direct) ==
  IF direct.raised # 0 \/ direct.home # NoUrl THEN direct
  ELSE discover_via_principal(answers, direct.requests)

discover_calendar_home(answers, apple_id) ==
  DiscoverAfterDirect(answers, try_direct_paths(answers, direct_paths(apple_id), 1, << >>))

\* the calendars among the responses of a listing
RECURSIVE ListedCalendars(_)
ListedCalendars(responses) ==
  IF responses = << >> THEN << >>
  ELSE IF Head(responses).href # "" /\ Head(responses).is_calendar
    THEN << resolve_url(ICLOUD_CALDAV_BASE, Strip(Head(responses).href)) >>
         \o ListedCalendars(Tail(responses))
  ELSE ListedCalendars(Tail(responses))

\* _list_calendars: every exception, and an empty listing, leave the
\* calendar home as the only calendar
list_calendars(answers, calendar_home) ==
  IF IsHTTPError(answers.listing) \/ ~answers.listing.well_formed
       \/ ListedCalendars(answers.listing.responses) = << >>
    THEN << calendar_home >>
    ELSE ListedCalendars(answers.listing.responses)

\* the calendars of the server, by url
CalendarOfUrl ==
  [ url \in { "https://caldav.icloud.com/1234/calendars/work/",
              "https://p07-caldav.icloud.com/1234/calendars/personal/" } |->
      IF url = "https://caldav.icloud.com/1234/calendars/work/" THEN "work" ELSE "personal" ]

\* the collection a calendar url names at the server
Resource(calendar_url) ==
  IF calendar_url \in DOMAIN CalendarOfUrl THEN CalendarOfUrl[calendar_url] ELSE "home"

\* _fetch_events of the calendars from the k-th on: 404 and 403 give no
\* events, every other HTTPError is raised again
RECURSIVE fetch_all_events(_, _, _, _, _)
fetch_all_events(answers, calendars, k, all_events, requests) ==
  IF k > Len(calendars)
    THEN [ raised |-> 0, events |-> all_events, requests |-> requests ]
  ELSE IF IsHTTPError(answers.report[Resource(calendars[k])])
          /\ answers.report[Resource(calendars[k])].status \notin {404, 403}
    THEN [ raised |-> answers.report[Resource(calendars[k])].status,
           events |-> all_events,
           requests |-> Append(requests,
                               Exchange("REPORT", calendars[k], "1",
                                        answers.report[Resource(calendars[k])])) ]
  ELSE fetch_all_events(answers, calendars, k + 1,
                        all_events \o answers.report[Resource(calendars[k])].events,
                        Append(requests,
                               Exchange("REPORT", calendars[k], "1",
                                        answers.report[Resource(calendars[k])])))

\* _send_error
send_error(code, error) ==
  [ handler |-> "api/calendar/apple", status |-> code, body |-> [ error |-> error ] ]

\* do_POST: except HTTPError
HTTPErrorResponse(code) ==
  IF code = 401
    THEN send_error(401, "Invalid credentials. Use the 16-character app-specific password (with or without dashes).")
  ELSE IF code = 404
    THEN send_error(404, "Calendar not found at the expected location.")
  ELSE send_error(code, "iCloud error " \o ToString(code) \o ": ")

ConnectedResponse(all_events, calendars) ==
  [ handler |-> "api/calendar/apple", status |-> 200,
    body |-> [ events |-> all_events, source |-> "apple", connected |-> TRUE,
               calendars_found |-> Len(calendars),
               message |-> "Found " \o ToString(Len(all_events)) \o " events from "
                           \o ToString(Len(calendars)) \o " calendar(s)" ] ]

\* do_POST after the events of every calendar were asked for
ConnectFetched(fetched, calendars) ==
  [ response |-> IF fetched.raised # 0 THEN HTTPErrorResponse(fetched.raised)
                 ELSE ConnectedResponse(fetched.events, calendars),
    requests |-> fetched.requests ]

\* do_POST after the discovery: a raised HTTPError, no calendar home (404),
\* or the listing and the events of every calendar
ConnectDiscovered(answers, discovered) ==
  IF discovered.raised # 0
    THEN [ response |-> HTTPErrorResponse(discovered.raised),
           requests |-> discovered.requests ]
  ELSE IF discovered.home = NoUrl
    THEN [ response |-> send_error(404, "Could not discover calendar. Please verify your Apple ID."),
           requests |-> discovered.requests ]
  ELSE ConnectFetched(
         fetch_all_events(answers, list_calendars(answers, discovered.home), 1, << >>,
                          Append(discovered.requests,
                                 Exchange("PROPFIND", discovered.home, "1", answers.listing))),
         list_calendars(answers, discovered.home))

\* do_POST: the response, and the requests made to the server
Connect(data, answers) ==
  IF Strip(data.apple_id) = "" \/ RemoveSpaces(Strip(data.app_password)) = ""
    THEN [ response |-> send_error(400, "Apple ID and app-specific password required"),
           requests |-> << >> ]
    ELSE ConnectDiscovered(answers, discover_calendar_home(answers, Strip(data.apple_id)))

(***************************************************************************)
(* Connect calls against every behaviour of the server: the status and the *)
(* content of its answer to each request of the call                       *)
(***************************************************************************)

ConnectBodies ==
  { [ apple_id |-> " cto@example.com", app_password |-> "abcd efgh ijkl mnop" ],
    [ apple_id |-> "cto@example.com", app_password |-> "  " ],
    [ apple_id |-> "", app_password |-> "abcd-efgh-ijkl-mnop" ] }

DirectAnswers == [ status : {207, 401, 404, 500} ]

RootAnswers ==
  { [ status |-> 207, home |-> "/1234/calendars/", principal |-> "" ],
    [ status |-> 207, home |-> "", principal |-> " /1234/principal/ " ],
    [ status |-> 207, home |-> "", principal |-> "" ],
    [ status |-> 401, home |-> "", principal |-> "" ],
    [ status |-> 500, home |-> "", principal |-> "" ] }

PrincipalAnswers ==
  { [ status |-> 207, href |-> "/1234/calendars/" ],
    [ status |-> 401, href |-> "" ],
    [ status |-> 404, href |-> "" ] }

ListingResponses ==
  << [ href |-> "/1234/calendars/", is_calendar |-> FALSE ],
     [ href |-> "/1234/calendars/work/", is_calendar |-> TRUE ],
     [ href |-> "https://p07-caldav.icloud.com/1234/calendars/personal/",
       is_calendar |-> TRUE ] >>

ListingAnswers ==
  { [ status |-> 207, well_formed |-> TRUE, responses |-> ListingResponses ],
    [ status |-> 207, well_formed |-> TRUE, responses |-> SubSeq(ListingResponses, 1, 1) ],
    [ status |-> 207, well_formed |-> FALSE, responses |-> << >> ],
    [ status |-> 401, well_formed |-> FALSE, responses |-> << >> ] }

CalendarEvents ==
  [ home |-> << [ id |-> "e1", title |-> "Lunch", source |-> "apple" ] >>,
    work |-> << [ id |-> "e2", title |-> "Board deck", source |-> "apple" ],
                [ id |-> "e3", title |-> "Weekly status", source |-> "apple" ] >>,
    personal |-> << >> ]

ReportStatuses ==
  [ home |-> {207, 401, 404}, work |-> {207, 401, 403, 500}, personal |-> {207, 401} ]

ReportAnswer(resource, status) ==
  [ status |-> status,
    events |-> IF status = 207 THEN CalendarEvents[resource] ELSE << >> ]

ReportAnswers ==
  { [ resource \in DOMAIN CalendarEvents |-> ReportAnswer(resource, statuses[resource]) ] :
      statuses \in { f \in [ DOMAIN CalendarEvents -> UNION { ReportStatuses[r] : r \in DOMAIN ReportStatuses } ] :
                      \A r \in DOMAIN f : f[r] \in ReportStatuses[r] } }

ICloudAnswers ==
  [ direct : DirectAnswers \X DirectAnswers, root : RootAnswers,
    principal : PrincipalAnswers, listing : ListingAnswers, report : ReportAnswers ]

InitApple ==
  /\ icloud \in [ answers : ICloudAnswers, requests : { << >> } ]
  /\ response = NoResponse
  /\ NoScorerState
  /\ csv = << >>
  /\ today = [year |-> 2024, month |-> 1, day |-> 15]
  /\ NoStyleOrFeedback

\* api/calendar/apple.py: POST, the connect call
apple_do_POST(data) ==
  /\ response' = Connect(data, icloud.answers).response
  /\ icloud' = [icloud EXCEPT !.requests = Connect(data, icloud.answers).requests]
  /\ UNCHANGED << meeting, scored, score, labels, csv, today, message, calls, file, before, reqs >>

NextApple == \E data \in ConnectBodies : apple_do_POST(data)

SpecApple == InitApple /\ [][NextApple]_vars

(***************************************************************************)
(* Properties of the scorer (SpecScore)                                    *)
(***************************************************************************)

WasScored == scored.copy # "none"

\* C1: for every Meeting Record (known or unknown meeting type, any
\* combination of keyword and indicator matches) the score that
\* calculate_alignment_score returns is an integer between 0 and 100.
C1_ScoreInRange ==
  WasScored => scored.ret.final_score \in 0..100

\* a meeting of the best type that matches all three OKR groups and a senior
\* indicator was scored
C1_Witness ==
  /\ scored.copy = "backend"
  /\ meeting.meeting_type = "architecture"
  /\ Len(scored.ret.okr_relevance) = 3
  /\ scored.ret.is_senior_activity
  /\ scored.ret.final_score = 96

\* C2: the final score is floor((30*type + 35*okr + 20*attendee + 15*time) / 100)
\* of the four sub-scores in force when the function returns (after the
\* special-case overrides).
C2_WeightedFloor ==
  WasScored =>
    LET r == scored.ret
    IN  r.final_score =
          (30 * r.type_score + 35 * r.okr_score + 20 * r.attendee_score
             + 15 * r.time_score) \div 100

\* a meeting whose type score was overridden and whose weighted sum has a
\* fractional part was scored
C2_Witness ==
  /\ WasScored
  /\ scored.ret.type_score # scored.ret.base_type_score
  /\ (30 * scored.ret.type_score + 35 * scored.ret.okr_score
        + 20 * scored.ret.attendee_score + 15 * scored.ret.time_score) % 100 # 0

\* C5: a status_update meeting always has type sub-score 15 and the
\* status-update flag; if no OKR group, no junior and no senior indicator
\* matches, its final score is 31 and the recommendation is Decline.
C5_StatusUpdate ==
  (WasScored /\ meeting.meeting_type = "status_update") =>
    LET r == scored.ret
    IN  /\ r.type_score = 15
        /\ \E i \in 1..Len(r.flags) :
             r.flags[i] = "Status updates should be asynchronous - consider declining"
        /\ (r.okr_relevance = << >> /\ ~r.is_junior_activity /\ ~r.is_senior_activity)
             => (r.final_score = 31 /\ r.recommendation = "Decline")

\* the status update of the example (no keyword, no indicator) was scored
C5_Witness ==
  /\ scored.copy = "backend"
  /\ meeting.meeting_type = "status_update"
  /\ meeting.title = "Weekly status" /\ meeting.description = ""
  /\ scored.ret.okr_relevance = << >>
  /\ ~scored.ret.is_junior_activity /\ ~scored.ret.is_senior_activity
  /\ scored.ret.final_score = 31

\* the keywords of a group as a set
KeywordSet(group) == { OKR_KEYWORDS[group][i] : i \in 1..Len(OKR_KEYWORDS[group]) }

\* kw occurs in text at some position
OccursIn(kw, text) ==
  \E i \in 1..Len(text) : \E j \in i..Len(text) : SubSeq(text, i, j) = kw

HasLabel(okrs, label) == \E i \in 1..Len(okrs) : okrs[i] = label

\* C9: the label of a keyword group is in the result of find_okr_relevance
\* if and only if a keyword of the group is a substring of the lowercased
\* title + " " + description + " " + meeting_type; every group contributes
\* at most once, so there are at most three labels and no duplicates.
C9_OkrMatcher ==
  WasScored =>
    LET okrs == scored.ret.okr_relevance
        text == Lower(meeting.title \o " " \o meeting.description \o " "
                      \o meeting.meeting_type)
        hit(group) == \E kw \in KeywordSet(group) : OccursIn(kw, text)
    IN  /\ HasLabel(okrs, "Platform Modernization") <=> hit("platform_modernization")
        /\ HasLabel(okrs, "Build World-Class Engineering Team") <=> hit("engineering_team")
        /\ HasLabel(okrs, "AI/ML Integration") <=> hit("ai_ml_integration")
        /\ Len(okrs) <= 3
        /\ \A i, j \in 1..Len(okrs) : i # j => okrs[i] # okrs[j]

\* a meeting that matches a group through its meeting type only, or one
\* that matches "ai" inside a word, was scored
C9_Witness ==
  /\ WasScored
  /\ \/ /\ meeting.title = "Lunch" /\ meeting.description = ""
        /\ meeting.meeting_type = "hiring"
        /\ scored.ret.okr_relevance = << "Build World-Class Engineering Team" >>
     \/ /\ meeting.title = "Email triage" /\ meeting.description = ""
        /\ meeting.meeting_type = "offsite"
        /\ scored.ret.okr_relevance = << "AI/ML Integration" >>

\* s is a subsequence of t
IsSubsequence(s, t) ==
  \E f \in [1..Len(s) -> 1..Len(t)] :
    /\ \A i \in 1..Len(s) : s[i] = t[f[i]]
    /\ \A i, j \in 1..Len(s) : i < j => f[i] < f[j]

\* C10 as stated: okr_relevance is a subsequence of
\* [Platform Modernization, Engineering Team, AI/ML Integration].
C10_AsStated ==
  WasScored =>
    IsSubsequence(scored.ret.okr_relevance,
                  << "Platform Modernization", "Engineering Team", "AI/ML Integration" >>)

\* C10: okr_relevance is a subsequence of [Platform Modernization,
\* Build World-Class Engineering Team, AI/ML Integration]: only these three
\* tags, in this order, whatever the order of the keywords in the text.
C10_OkrOrder ==
  WasScored =>
    IsSubsequence(scored.ret.okr_relevance,
                  << "Platform Modernization", "Build World-Class Engineering Team",
                     "AI/ML Integration" >>)

\* a meeting whose text names the AI keyword before the hiring and the
\* platform keywords was scored
C10_Witness ==
  /\ WasScored
  /\ meeting.title = "AI Roadmap" /\ meeting.description = "hiring plan"
  /\ meeting.meeting_type = "architecture"
  /\ Len(scored.ret.okr_relevance) = 3

(***************************************************************************)
(* Properties of the label functions (SpecLabel)                           *)
(***************************************************************************)

RecommendationRank(r) == CASE r = "Decline" -> 1 [] r = "Delegate" -> 2 [] r = "Keep" -> 3

StrategicValueRank(v) == CASE v = "Low" -> 1 [] v = "Medium" -> 2 [] v = "High" -> 3

BoundaryLabels ==
  [ s \in {44, 45, 49, 50, 69, 70, 74, 75} |->
      CASE s = 44 -> << "Decline", "Low" >>
        [] s = 45 -> << "Delegate", "Low" >>
        [] s = 49 -> << "Delegate", "Low" >>
        [] s = 50 -> << "Delegate", "Medium" >>
        [] s = 69 -> << "Delegate", "Medium" >>
        [] s = 70 -> << "Keep", "Medium" >>
        [] s = 74 -> << "Keep", "Medium" >>
        [] s = 75 -> << "Keep", "High" >> ]

\* C3: recommendation is Keep iff score >= 70, Delegate iff 45 <= score < 70,
\* Decline iff score < 45; strategic_value is High iff score >= 75, Medium iff
\* 50 <= score < 75, Low iff score < 50; neither decreases when the score
\* grows; the boundary scores map as listed.
C3_Thresholds ==
  labels # NoLabels =>
    /\ labels.recommendation = "Keep" <=> score >= 70
    /\ labels.recommendation = "Delegate" <=> (45 <= score /\ score < 70)
    /\ labels.recommendation = "Decline" <=> score < 45
    /\ labels.strategic_value = "High" <=> score >= 75
    /\ labels.strategic_value = "Medium" <=> (50 <= score /\ score < 75)
    /\ labels.strategic_value = "Low" <=> score < 50
    /\ \A lower \in 0..score :
         /\ RecommendationRank(Recommendation(lower))
              <= RecommendationRank(labels.recommendation)
         /\ StrategicValueRank(get_strategic_value_label(lower))
              <= StrategicValueRank(labels.strategic_value)
    /\ score \in DOMAIN BoundaryLabels =>
         << labels.recommendation, labels.strategic_value >> = BoundaryLabels[score]

\* the boundary score 70 was labelled
C3_Witness ==
  score = 70 /\ labels = [strategic_value |-> "Medium", recommendation |-> "Keep"]

(***************************************************************************)
(* Properties of the requests (Spec, SpecSummary)                          *)
(***************************************************************************)

IsAudit ==
  response.status = 200
  /\ response.handler \in {"backend/calendar-audit", "api/calendar-audit"}

IsBriefing ==
  response.status = 200
  /\ response.handler \in {"backend/daily-briefing", "api/daily-briefing"}

\* the result belongs to the row of the calendar
ResultOfRow(result, row) ==
  /\ result.entry.id = row.id
  /\ result.entry.title = row.title
  /\ result.entry.description = row.description
  /\ result.entry.meeting_type = row.meeting_type
  /\ result.entry.attendees = row.attendees
  /\ result.entry.duration_minutes = row.duration_minutes
  /\ ParseDate(result.entry.date) = ParseDate(row.date)
  /\ ParseTime(result.entry.start_time) = ParseTime(row.start_time)

\* C4: an audit returns exactly one result per row of the calendar (a
\* permutation of the rows), in non-decreasing order of alignment_score, and
\* results with equal scores are in the order of their rows.
C4_AuditSorted ==
  IsAudit =>
    LET ms == response.meetings
        n  == Len(csv)
    IN  /\ Len(ms) = n
        /\ { ms[i].entry.id : i \in 1..n } = 1..n
        /\ \A i \in 1..n : ResultOfRow(ms[i], csv[ms[i].entry.id])
        /\ \A i, j \in 1..n :
             i < j => /\ ms[i].alignment_score <= ms[j].alignment_score
                      /\ ms[i].alignment_score = ms[j].alignment_score
                           => ms[i].entry.id < ms[j].entry.id

\* an audit of three rows moved the second row to the front and kept two
\* rows of equal score in their order
C4_Witness ==
  /\ IsAudit
  /\ Len(response.meetings) = 3
  /\ response.meetings[1].entry.id = 2
  /\ response.meetings[2].entry.id = 1
  /\ response.meetings[2].alignment_score = response.meetings[3].alignment_score

\* C6 as stated: total_meetings, high_strategic_value and needs_attention
\* count the results, and health_score is
\* floor(high_strategic_value * 100 / total_meetings), 0 for no meetings.
C6_Summary ==
  IsAudit =>
    LET ms    == response.meetings
        sum   == response.summary
        high  == Cardinality({ i \in 1..Len(ms) : ms[i].strategic_value = "High" })
        other == Cardinality({ i \in 1..Len(ms) : ms[i].recommendation # "Keep" })
    IN  /\ sum.total_meetings = Len(ms)
        /\ sum.high_strategic_value = high
        /\ sum.needs_attention = other
        /\ sum.health_score = IF Len(ms) > 0 THEN (high * 100) \div Len(ms) ELSE 0

\* the rows of the calendar on the date of a briefing request
RowsOfDay ==
  LET q == response.query
      on(row) ==
        IF response.handler = "backend/daily-briefing"
          THEN ParseDate(row.date).value
                 = (IF q.given THEN ParseDate(q.value).value ELSE today)
          ELSE IF q.given THEN row.date = q.value
          ELSE ParseDate(row.date).value = today
  IN  { i \in 1..Len(csv) : on(csv[i]) }

\* C7 as stated: the meeting list of a daily briefing holds exactly the rows
\* whose date is the target date, and the target date is the current date
\* when the request names none.
C7_BriefingFilter ==
  IsBriefing =>
    LET ms == response.briefing.meetings
    IN  /\ { ms[i].entry.id : i \in 1..Len(ms) } = RowsOfDay
        /\ Len(ms) = Cardinality(RowsOfDay)

\* C8 as stated: strategic_percentage is
\* floor(strategic_minutes * 100 / total_minutes), 0 when total_minutes is 0;
\* a briefing without meetings has total_meetings 0, total_hours 0,
\* strategic_percentage 0 and an empty list.
C8_StrategicPercentage ==
  IsBriefing =>
    LET b  == response.briefing
        ms == b.meetings
        total_minutes == SumSeq([i \in 1..Len(ms) |-> ms[i].entry.duration_minutes])
        strategic_minutes ==
          SumSeq([i \in 1..Len(ms) |->
                    IF ms[i].strategic_value = "High"
                      THEN ms[i].entry.duration_minutes ELSE 0])
    IN  /\ b.strategic_percentage =
             IF total_minutes > 0
               THEN (strategic_minutes * 100) \div total_minutes ELSE 0
        /\ ms = << >> =>
             /\ b.total_meetings = 0
             /\ b.total_hours = 0
             /\ b.strategic_percentage = 0

(***************************************************************************)
(* Properties of the style checker (SpecStyle)                             *)
(***************************************************************************)

IsStyleResult ==
  /\ response # NoResponse
  /\ response.status = 200
  /\ response.handler \in { "backend/check-style", "api/check-style" }

\* the number of issues of one severity
SeverityCount(issues, severity) ==
  Cardinality({ k \in 1..Len(issues) : issues[k].severity = severity })

\* C11: the style score is max(0, 100 - 20*H - 10*M - 5*L), H, M and L the
\* numbers of high-, medium- and low-severity issues emitted for the text, so
\* it is an integer in 0..100, also when the deductions add up to more than 100.
C11_StyleScore ==
  IsStyleResult =>
    LET issues == response.result.issues
        raw == 100 - 20 * SeverityCount(issues, "high")
                   - 10 * SeverityCount(issues, "medium")
                   - 5 * SeverityCount(issues, "low")
    IN  /\ response.result.score = IF raw < 0 THEN 0 ELSE raw
        /\ response.result.score \in 0..100
        /\ \A k \in 1..Len(issues) : issues[k].severity \in { "high", "medium", "low" }

\* the backend checked a text for which every check emits its issues: the
\* deductions add up to more than 100
C11_Witness ==
  /\ IsStyleResult
  /\ response.handler = "backend/check-style"
  /\ { response.result.issues[k].category : k \in 1..Len(response.result.issues) }
       = { "Structure", "Clarity", "Specificity", "Actionability", "Data", "Tone" }
  /\ 20 * SeverityCount(response.result.issues, "high")
       + 10 * SeverityCount(response.result.issues, "medium")
       + 5 * SeverityCount(response.result.issues, "low") > 100
  /\ response.result.score = 0

\* the text starts with "i wanted to" without a BLUF indicator on its first
\* line, names an update without a numeric metric, has three "was ...ed"
\* passives, no vague term, fewer than 50 words, no pet peeve and no apology
LikeSpecExample(text) ==
  /\ LitAt(Lower(FirstLine(Strip(text))), 1, "i wanted to")
  /\ ~AnyIn(BlufIndicators, Lower(FirstLine(Strip(text))))
  /\ Contains(Lower(text), "update")
  /\ ~HasMetrics(text)
  /\ FindAllCount(Lower(text), PassiveAt) = 3
  /\ check_vague_terms(text) = << >>
  /\ WordCount(text) < 50
  /\ check_pet_peeves(text) = << >>
  /\ check_over_apologizing(text) = << >>

\* C12 as stated: for such a text (the example "I wanted to update you on the
\* project. It was completed. It was reviewed. It was approved.") check_style
\* emits exactly two issues, the BLUF issue (high) and the passive-voice issue
\* (medium), the score is 70 and the summary is the "Good structure" one.
C12_ExampleScore ==
  (IsStyleResult /\ LikeSpecExample(message)) =>
    /\ Len(response.result.issues) = 2
    /\ response.result.issues[1].category = "Structure"
    /\ response.result.issues[1].severity = "high"
    /\ response.result.issues[2].category = "Clarity"
    /\ response.result.issues[2].severity = "medium"
    /\ response.result.score = 70
    /\ response.result.summary
         = "Good structure, but consider the suggestions above for improvement."

\* the text is empty or holds whitespace only
IsBlank(text) == \A i \in 1..Len(text) : IsSpaceAt(text, i)

IsStyleResponse ==
  /\ response # NoResponse
  /\ response.handler \in { "backend/check-style", "api/check-style" }

\* C13: check_style on an empty or whitespace-only text is rejected with
\* HTTP 400 "Text cannot be empty" and produces no score, issues or summary;
\* it is never answered with a successful result.
C13_BlankRejected ==
  (IsStyleResponse /\ IsBlank(message)) =>
    /\ response.status = 400
    /\ "result" \notin DOMAIN response
    /\ \/ /\ response.handler = "backend/check-style"
          /\ response.detail = "Text cannot be empty"
       \/ /\ response.handler = "api/check-style"
          /\ response.error = "Text cannot be empty"

\* a text of blanks, a newline and a tab was rejected by the backend
C13_Witness ==
  /\ IsStyleResponse
  /\ response.handler = "backend/check-style"
  /\ message # ""
  /\ IsBlank(message)
  /\ \E i \in 1..Len(message) : SubSeq(message, i, i) = "\n"
  /\ response.status = 400

FlagSet(flags) == { flags[k] : k \in 1..Len(flags) }

\* C15: a meeting whose meeting_type is not a key of MEETING_TYPE_SCORES is
\* scored normally: its type sub-score is 40 and its flag list holds no
\* type-specific flag, only the OKR flag and the junior-activity flag can appear.
C15_UnknownType ==
  (WasScored /\ meeting.meeting_type \notin DOMAIN MEETING_TYPE_SCORES) =>
    /\ scored.ret.type_score = 40
    /\ FlagSet(scored.ret.flags) \subseteq { FlagNoOkr, FlagJunior(meeting.title) }
    /\ scored.ret.final_score \in 0..100
    /\ scored.ret.recommendation \in { "Keep", "Delegate", "Decline" }

\* the backend scored an "offsite" meeting that matches no OKR keyword and a
\* junior indicator: both flags that may appear are there
C15_Witness ==
  /\ scored.copy = "backend"
  /\ meeting.meeting_type = "offsite"
  /\ scored.ret.type_score = 40
  /\ FlagSet(scored.ret.flags) = { FlagNoOkr, FlagJunior(meeting.title) }

\* what calculate_alignment_score returns to its caller
Returned(ret) == << ret.final_score, ret.flags, ret.recommendation >>

\* C16 as stated: for every Meeting Record, calculate_alignment_score of the
\* backend service, of the calendar-audit handler and of the daily-briefing
\* handler return the same score, the same flag list and the same
\* recommendation (also for vendor_demo meetings mentioning "100k" or "200k").
C16_CopiesAgree ==
  WasScored =>
    /\ Returned(scored.ret) = Returned(calculate_alignment_score(meeting))
    /\ Returned(scored.ret) = Returned(audit_calculate_alignment_score(meeting))
    /\ Returned(scored.ret) = Returned(briefing_calculate_alignment_score(meeting))

\* C20: the flag "No clear OKR alignment detected" is in the flag list if and
\* only if okr_relevance is empty; the OKR sub-score is 30 when okr_relevance
\* is empty, 85 for one matched group and 100 for two or for three groups.
C20_OkrFlagAndScore ==
  WasScored =>
    /\ FlagNoOkr \in FlagSet(scored.ret.flags) <=> scored.ret.okr_relevance = << >>
    /\ Len(scored.ret.okr_relevance) \in 0..3
    /\ scored.ret.okr_score =
         CASE Len(scored.ret.okr_relevance) = 0 -> 30
           [] Len(scored.ret.okr_relevance) = 1 -> 85
           [] OTHER -> 100

\* the backend scored a meeting that matches exactly one keyword group: the
\* OKR sub-score is 85 and the flag is absent
C20_Witness ==
  /\ scored.copy = "backend"
  /\ Len(scored.ret.okr_relevance) = 1
  /\ scored.ret.okr_score = 85
  /\ FlagNoOkr \notin FlagSet(scored.ret.flags)

(***************************************************************************)
(* Properties of repeated calls (SpecRepeat)                               *)
(***************************************************************************)

\* score, flags, recommendation and okr_relevance of a call
Returned4(ret) ==
  << ret.final_score, ret.flags, ret.recommendation, ret.okr_relevance >>

IsDates ==
  /\ response # NoResponse
  /\ response.handler \in { "backend/available-dates", "api/available-dates" }

\* the calendar dates of the rows
CalendarDates == { ParseDate(csv[i].date).value : i \in 1..Len(csv) }

\* days in chronological order
DayNumber(d) == 10000 * d.year + 100 * d.month + d.day

\* C18 as stated: available_dates returns every date that occurs in the
\* collection exactly once (no duplicates, none missing, none invented), in
\* ascending chronological order; for an empty collection it returns an
\* empty list.
C18_AvailableDates ==
  IsDates =>
    /\ response.status = 200
    /\ \A k \in 1..Len(response.dates) : ParseDate(response.dates[k]).ok
    /\ { ParseDate(response.dates[k]).value : k \in 1..Len(response.dates) }
         = CalendarDates
    /\ Len(response.dates) = Cardinality(CalendarDates)
    /\ \A j, k \in 1..Len(response.dates) :
         j < k => DayNumber(ParseDate(response.dates[j]).value)
                    < DayNumber(ParseDate(response.dates[k]).value)
    /\ csv = << >> => response.dates = << >>

(***************************************************************************)
(* Properties of the feedback file (SpecFeedback)                          *)
(***************************************************************************)

\* every request has returned status "saved"
AllSaved ==
  /\ reqs # << >>
  /\ \A i \in 1..Len(reqs) : reqs[i].pc = "saved"

\* the requests between the load and the end of the write
Writers == { i \in 1..Len(reqs) : reqs[i].pc \in { "loaded", "opened" } }

Occurrences(entries, entry) ==
  Cardinality({ k \in 1..Len(entries) : entries[k] = entry })

\* C19 as stated: writes to the feedback file are mutually exclusive
\* (acquire, append, release): for every interleaving of concurrent
\* save_feedback requests, once all of them have returned status "saved" the
\* file contains one entry for each of them and still contains every entry
\* that was in the file before.
C19_NoLostUpdate ==
  /\ Cardinality(Writers) <= 1
  /\ AllSaved =>
       /\ file.state = "data"
       /\ \A i \in 1..Len(reqs) : Occurrences(file.feedback, reqs[i].entry) = 1
       /\ SubSeq(file.feedback, 1, Len(before)) = before
       /\ Len(file.feedback) = Len(before) + Len(reqs)

(***************************************************************************)
(* Properties of the sub-scores and the flags (SpecScore)                  *)
(***************************************************************************)

\* the lowercased title and description of the scored meeting
TitleAndDescription == Lower(meeting.title \o " " \o meeting.description)

\* a junior indicator occurs in title + description
JuniorMatches ==
  \E k \in 1..Len(JUNIOR_INDICATORS) : Contains(TitleAndDescription, JUNIOR_INDICATORS[k])

\* a senior indicator occurs in title + description or in the joined attendees
SeniorMatches ==
  \E k \in 1..Len(SENIOR_INDICATORS) :
    \/ Contains(TitleAndDescription, SENIOR_INDICATORS[k])
    \/ Contains(Lower(Join(meeting.attendees)), SENIOR_INDICATORS[k])

HasJuniorFlag == FlagJunior(meeting.title) \in FlagSet(scored.ret.flags)

\* C21: the attendee sub-score is 25 with the junior-activity flag exactly
\* when a junior indicator matches title + description and no senior
\* indicator matches title + description or the joined attendee list; it is
\* 90 without the flag whenever a senior indicator matches, also when a
\* junior indicator matches too; it is 60 without the flag when neither matches.
C21_AttendeeScore ==
  WasScored =>
    /\ (JuniorMatches /\ ~SeniorMatches) <=> scored.ret.attendee_score = 25
    /\ (JuniorMatches /\ ~SeniorMatches) <=> HasJuniorFlag
    /\ SeniorMatches <=> scored.ret.attendee_score = 90
    /\ (~JuniorMatches /\ ~SeniorMatches) <=> scored.ret.attendee_score = 60

\* the backend scored a meeting with a junior indicator in its title and a
\* senior indicator in its attendee list only: 90, no junior flag
C21_Witness ==
  /\ scored.copy = "backend"
  /\ JuniorMatches
  /\ \A k \in 1..Len(SENIOR_INDICATORS) :
       ~Contains(TitleAndDescription, SENIOR_INDICATORS[k])
  /\ SeniorMatches
  /\ scored.ret.attendee_score = 90
  /\ ~HasJuniorFlag

VendorFlagCount ==
  Cardinality({ k \in 1..Len(scored.ret.flags) : scored.ret.flags[k] = FlagVendor })

\* C22 as stated: for a vendor_demo meeting, if the lowercased title +
\* description contains "25k" or "10k" the type sub-score is 20 and the
\* small-vendor flag is added, even when "100k" or "200k" also occurs;
\* otherwise, if it contains "200k" or "100k" the type sub-score is 70 and no
\* vendor flag is added; otherwise the type sub-score stays 40 with no
\* vendor flag.
C22_VendorDemo ==
  (WasScored /\ meeting.meeting_type = "vendor_demo") =>
    IF Contains(TitleAndDescription, "25k") \/ Contains(TitleAndDescription, "10k")
      THEN scored.ret.type_score = 20 /\ VendorFlagCount = 1
    ELSE IF Contains(TitleAndDescription, "200k") \/ Contains(TitleAndDescription, "100k")
      THEN scored.ret.type_score = 70 /\ VendorFlagCount = 0
    ELSE scored.ret.type_score = 40 /\ VendorFlagCount = 0

\* the five type-specific flags
TypeFlags == { FlagDesignReview, FlagInterview, FlagVendor, FlagStatus, FlagSprint }

\* C23: the flag list is a subsequence of [OKR flag, junior-activity flag,
\* type-specific flag] in this order: it has at most three entries, no flag
\* appears twice, and at most one of the five type-specific flags is present.
C23_FlagOrder ==
  WasScored =>
    /\ \E t \in TypeFlags :
         IsSubsequence(scored.ret.flags, << FlagNoOkr, FlagJunior(meeting.title), t >>)
    /\ Len(scored.ret.flags) <= 3
    /\ Cardinality(FlagSet(scored.ret.flags)) = Len(scored.ret.flags)
    /\ Cardinality(FlagSet(scored.ret.flags) \cap TypeFlags) <= 1

\* the backend scored a meeting that got all three kinds of flags
C23_Witness ==
  /\ scored.copy = "backend"
  /\ Len(scored.ret.flags) = 3
  /\ scored.ret.flags[1] = FlagNoOkr
  /\ scored.ret.flags[2] = FlagJunior(meeting.title)
  /\ scored.ret.flags[3] \in TypeFlags

(***************************************************************************)
(* Further properties of the style checker (SpecStyle)                     *)
(***************************************************************************)

\* the place of the check that emitted an issue in the order BLUF, passive
\* voice, vague terms, action items, metrics, pet peeves, over-apologizing
CheckRank(issue) ==
  CASE issue.category = "Structure" -> 1
    [] issue.category = "Clarity" -> 2
    [] issue.category = "Specificity" -> 3
    [] issue.category = "Actionability" -> 4
    [] issue.category = "Data" -> 5
    [] issue.category = "Tone" /\ issue.issue = "Over-apologizing detected" -> 7
    [] OTHER -> 6

\* the phrases of the pet-peeve list that occur in the lowercased text
MatchedPeeves ==
  { p \in { "sorry to bother", "quick sync", "just checking in", "touching base",
            "circle back", "ping you", "loop you in" } :
      Contains(Lower(message), p) }

IssuesOfRank(issues, rank) == { k \in 1..Len(issues) : CheckRank(issues[k]) = rank }

\* C24: the issue list is ordered BLUF, passive voice, vague terms, action
\* items, metrics, pet peeves, over-apologizing; every check but the
\* pet-peeve check contributes at most one issue, and the pet-peeve check
\* contributes one low-severity issue per matched phrase of its list.
C24_IssueOrder ==
  IsStyleResult =>
    /\ \A j, k \in 1..Len(response.result.issues) :
         j < k => CheckRank(response.result.issues[j]) <= CheckRank(response.result.issues[k])
    /\ \A rank \in { 1, 2, 3, 4, 5, 7 } :
         Cardinality(IssuesOfRank(response.result.issues, rank)) <= 1
    /\ Cardinality(IssuesOfRank(response.result.issues, 6)) = Cardinality(MatchedPeeves)
    /\ { response.result.issues[k].issue : k \in IssuesOfRank(response.result.issues, 6) }
         = { "Pet peeve phrase detected: '" \o p \o "'" : p \in MatchedPeeves }
    /\ \A k \in IssuesOfRank(response.result.issues, 6) :
         response.result.issues[k].severity = "low"

\* the backend checked a text for which all seven checks emit issues, the
\* pet-peeve check one for each of its seven phrases
C24_Witness ==
  /\ IsStyleResult
  /\ response.handler = "backend/check-style"
  /\ { CheckRank(response.result.issues[k]) : k \in 1..Len(response.result.issues) } = 1..7
  /\ Cardinality(MatchedPeeves) = 7
  /\ Len(response.result.issues) = 13

\* C25: the style summary is a function of the score only: the "Excellent"
\* text iff score >= 85, the "Good structure" text iff 70 <= score < 85, the
\* "Several areas need attention" text iff 50 <= score < 70 and the "needs
\* significant revision" text iff score < 50, whatever the issues are.
C25_SummaryOfScore ==
  IsStyleResult =>
    /\ response.result.score >= 85 <=>
         response.result.summary
           = "Excellent! Your message follows the communication style guidelines well."
    /\ (response.result.score >= 70 /\ response.result.score < 85) <=>
         response.result.summary
           = "Good structure, but consider the suggestions above for improvement."
    /\ (response.result.score >= 50 /\ response.result.score < 70) <=>
         response.result.summary
           = "Several areas need attention. Review the issues and apply the suggestions."
    /\ response.result.score < 50 <=>
         response.result.summary
           = "This message needs significant revision to align with communication guidelines."

\* a text with a medium-severity and a low-severity issue was checked: score
\* 85, at the threshold of the "Excellent" summary
C25_Witness ==
  /\ IsStyleResult
  /\ response.result.score = 85
  /\ Len(response.result.issues) = 2
  /\ response.result.summary
       = "Excellent! Your message follows the communication style guidelines well."

(***************************************************************************)
(* Properties of the Apple calendar connector (SpecApple)                  *)
(***************************************************************************)

\* a connect call was answered
Connected == response # NoResponse /\ response.handler = "api/calendar/apple"

\* the server answered one of the requests of the call with 401
Unauthorized(requests) == \E k \in 1..Len(requests) : requests[k].status = 401

ResponseResults ==
  IF IsAudit THEN response.meetings
  ELSE IF IsBriefing THEN response.briefing.meetings
  ELSE << >>

\* C27: every Audit Result with strategic_value High has recommendation
\* Keep, and every result with recommendation Decline has strategic_value
\* Low (for the results of a response, and for the labels of every score
\* from 0 to 100); so in every audit summary high_strategic_value +
\* needs_attention is at most total_meetings, and health_score lies between
\* 0 and 100.
C27_LabelsAndSummary ==
  /\ \A i \in 1..Len(ResponseResults) :
       /\ ResponseResults[i].strategic_value = "High"
            => ResponseResults[i].recommendation = "Keep"
       /\ ResponseResults[i].recommendation = "Decline"
            => ResponseResults[i].strategic_value = "Low"
  /\ IsAudit =>
       /\ \A s \in 0..100 :
            /\ get_strategic_value_label(s) = "High" => Recommendation(s) = "Keep"
            /\ Recommendation(s) = "Decline" => get_strategic_value_label(s) = "Low"
       /\ response.summary.high_strategic_value + response.summary.needs_attention
            <= response.summary.total_meetings
       /\ response.summary.health_score >= 0
       /\ response.summary.health_score <= 100

\* an audit with a High result, a Decline result and a Delegate result
C27_Witness ==
  /\ IsAudit
  /\ \E i, j, k \in 1..Len(response.meetings) :
       /\ response.meetings[i].strategic_value = "High"
       /\ response.meetings[i].recommendation = "Keep"
       /\ response.meetings[j].recommendation = "Decline"
       /\ response.meetings[j].strategic_value = "Low"
       /\ response.meetings[k].recommendation = "Delegate"
  /\ response.summary.high_strategic_value + response.summary.needs_attention
       = response.summary.total_meetings

\* the ids of the meetings of a briefing, in their order
MeetingIds(meetings) == [i \in 1..Len(meetings) |-> meetings[i].entry.id]

\* the time of day of the start of a meeting of a response, in minutes
StartMinutes(result) == TimeKey(ParseTime(result.entry.start_time).value)

\* the meetings that two lists share stand in the same order in both
SameRelativeOrder(a, b) ==
  \A i1, i2 \in 1..Len(a), j1, j2 \in 1..Len(b) :
    (i1 < i2 /\ a[i1] = b[j1] /\ a[i2] = b[j2]) => j1 < j2

\* the date a briefing request names is one both copies accept
AnswerableByBoth(q) == q.given /\ q.value # "" /\ ParseDate(q.value).ok

\* C28: the meetings of a daily briefing are in non-decreasing start_time
\* order; two meetings with the same start_time stand in the order of their
\* rows in the calendar (not in the order of their alignment scores); and
\* the backend and the handler of api/daily-briefing.py give the meetings
\* of a day in the same order.
C28_BriefingOrder ==
  IsBriefing =>
    /\ \A i, j \in 1..Len(response.briefing.meetings) :
         i < j =>
           /\ StartMinutes(response.briefing.meetings[i])
                <= StartMinutes(response.briefing.meetings[j])
           /\ StartMinutes(response.briefing.meetings[i])
                = StartMinutes(response.briefing.meetings[j])
                => response.briefing.meetings[i].entry.id
                     < response.briefing.meetings[j].entry.id
    /\ AnswerableByBoth(response.query) =>
         SameRelativeOrder(
           MeetingIds(get_daily_briefing(csv, ParseDate(response.query.value).value).meetings),
           MeetingIds(briefing_handler_response(csv, response.query).meetings))

\* "onboarding" is the only junior indicator in title + description
OnlyOnboarding ==
  /\ Contains(TitleAndDescription, "onboarding")
  /\ \A k \in 1..Len(JUNIOR_INDICATORS) :
       JUNIOR_INDICATORS[k] # "onboarding"
         => ~Contains(TitleAndDescription, JUNIOR_INDICATORS[k])

\* C29: the senior indicator "board" is a substring of the junior indicator
\* "onboarding", so a meeting whose only junior indicator in title +
\* description is "onboarding" is junior and senior at once: its attendee
\* sub-score is 90 and the junior-activity flag is absent, while the junior
\* cases of design_review (type sub-score 20) and interview (type sub-score
\* 25) apply to it with their flags.
C29_OnboardingIsSenior ==
  (WasScored /\ OnlyOnboarding) =>
    /\ Contains("onboarding", "board")
    /\ scored.ret.is_junior_activity
    /\ scored.ret.is_senior_activity
    /\ scored.ret.attendee_score = 90
    /\ ~HasJuniorFlag
    /\ meeting.meeting_type = "design_review" =>
         /\ scored.ret.type_score = 20
         /\ FlagDesignReview \in FlagSet(scored.ret.flags)
    /\ meeting.meeting_type = "interview" =>
         /\ scored.ret.type_score = 25
         /\ FlagInterview \in FlagSet(scored.ret.flags)

\* the backend scored an interview named "Onboarding" with no senior
\* indicator but "board" in its text and none among its attendees
C29_Witness ==
  /\ scored.copy = "backend"
  /\ OnlyOnboarding
  /\ meeting.meeting_type = "interview"
  /\ \A k \in 1..Len(SENIOR_INDICATORS) :
       /\ SENIOR_INDICATORS[k] # "board"
            => ~Contains(TitleAndDescription, SENIOR_INDICATORS[k])
       /\ ~Contains(Lower(Join(meeting.attendees)), SENIOR_INDICATORS[k])
  /\ scored.ret.attendee_score = 90
  /\ scored.ret.type_score = 25
  /\ scored.ret.flags = << FlagInterview >>

\* C30: meeting_type is part of the text the OKR matcher searches, so every
\* meeting of type architecture has "Platform Modernization" in
\* okr_relevance and every meeting of type hiring or interview has "Build
\* World-Class Engineering Team", whatever its title and description; for
\* these three types the OKR sub-score is at least 85 and the flag "No clear
\* OKR alignment detected" is absent.
C30_TypeNamesMatch ==
  WasScored =>
    /\ meeting.meeting_type = "architecture"
         => HasLabel(scored.ret.okr_relevance, "Platform Modernization")
    /\ meeting.meeting_type \in { "hiring", "interview" }
         => HasLabel(scored.ret.okr_relevance, "Build World-Class Engineering Team")
    /\ meeting.meeting_type \in { "architecture", "hiring", "interview" } =>
         /\ scored.ret.okr_score >= 85
         /\ FlagNoOkr \notin FlagSet(scored.ret.flags)

\* the backend scored an architecture meeting whose title and description
\* hold no keyword of any group: the type alone gives the label and 85
C30_Witness ==
  /\ scored.copy = "backend"
  /\ meeting.meeting_type = "architecture"
  /\ meeting.title = "Lunch" /\ meeting.description = ""
  /\ \A group \in DOMAIN OKR_KEYWORDS :
       ~AnyIn(OKR_KEYWORDS[group], TitleAndDescription)
  /\ scored.ret.okr_relevance = << "Platform Modernization" >>
  /\ scored.ret.okr_score = 85
  /\ scored.ret.flags = << >>

=============================================================================
